---- MODULE Spec2Model ----
(***************************************************************************)
(* The gift-card ledger of pretix/control/views/organizer.py:              *)
(* GiftCardDetailView.post (Spec) and, with it, GiftCardCreateView and     *)
(* GiftCardUpdateView (LedgerSpec), one process per concurrent request.    *)
(* Every request runs inside transaction.atomic(): its writes are buffered *)
(* (pendTx, pendPay, pendLog) and become visible to the other requests     *)
(* when the atomic block is left; the row lock taken by                    *)
(* select_for_update() is held until then.                                 *)
(***************************************************************************)
EXTENDS Integers, Sequences, FiniteSets, TLC

\* Number of request-handling threads that may run at the same time.
NumReqs == 2
\* Total number of requests that arrive in one behaviour.
MaxArrivals == 2

\* Times the audit sink (log_action) fails in one behaviour.
MaxFaults == 1

Reqs == 1..NumReqs

NoHolder == 0

\* Cards issued by request.organizer, and every card primary key a URL may name.
IssuedGiftCards == {1, 2}
CardPks == {1, 2, 3}
\* The pks the sequence gives to gift cards created later.
NewCardPks == 4..(3 + MaxArrivals)
\* GiftCardCreateForm value fields posted, and what an update form can set.
CreateValues == {0 - 1, 0, 2}
UpdateForms == {"invalid", "deactivate", "activate"}

\* The organizer's teams, which of them have can_change_teams, the users,
\* and the e-mail addresses typed into the invite form.
TeamPks == {1, 2, 3}
CanChangeTeams == [tm \in TeamPks |-> tm # 3]
UserPks == {1, 2}
UserEmail == [u \in UserPks |-> IF u = 1 THEN "ann@example.org" ELSE "bob@example.org"]
PostedEmails == {"ann@example.org", "ANN@example.org", "new@example.org", "New@example.org"}
InitialMembers == [tm \in TeamPks |-> IF tm = 1 THEN {1, 2} ELSE IF tm = 2 THEN {2} ELSE {1}]
NoWrite == [op |-> "none", team |-> 0, user |-> 0, email |-> ""]

NoOrder == "none"
NoText == "none"
NoPost == [hasRevert |-> FALSE, revert |-> 0, hasValue |-> FALSE, value |-> "", text |-> ""]

\* OrderPayment.PAYMENT_STATE_*
PAYMENT_STATE_CREATED == "created"
PAYMENT_STATE_PENDING == "pending"
PAYMENT_STATE_CONFIRMED == "confirmed"
PAYMENT_STATE_FAILED == "failed"

\* The ledger the requests start from: card 1 was issued with 2, received a
\* refund of 1 from order O1 and paid 1 into order O1; card 2 holds one
\* refund of 1 from order O2.
InitialTransactions ==
    << [card |-> 1, value |-> 2, text |-> NoText, order |-> NoOrder],
       [card |-> 1, value |-> 1, text |-> NoText, order |-> "O1"],
       [card |-> 1, value |-> 0 - 1, text |-> NoText, order |-> "O1"],
       [card |-> 2, value |-> 1, text |-> NoText, order |-> "O2"] >>

\* request.POST of the detail view: the optional fields revert, value, text.
ValueTexts == {"-2", "1", "abc", ""}
RevertPks == 1..5
PostBodies ==
    [hasRevert : {TRUE}, revert : RevertPks, hasValue : {FALSE}, value : {""}, text : {""}]
    \cup [hasRevert : {FALSE}, revert : {0}, hasValue : {TRUE}, value : ValueTexts, text : {""}]
    \cup [hasRevert : {FALSE}, revert : {0}, hasValue : {TRUE}, value : {"1"}, text : {"memo"}]
    \cup [hasRevert : {TRUE}, revert : {2}, hasValue : {TRUE}, value : {"1"}, text : {""}]
    \cup [hasRevert : {FALSE}, revert : {0}, hasValue : {FALSE}, value : {""}, text : {""}]

\* What PaymentException messages the provider may raise.
PaymentErrors == {"declined"}

VARIABLES
    transactions,   \* committed GiftCardTransaction rows, in creation order
    payments,       \* committed OrderPayment rows
    log,            \* committed LogEntry rows (log_action)
    lockHolder,     \* card pk -> request holding its row lock, or NoHolder
    pc,             \* request -> position in GiftCardDetailView.post
    card,           \* request -> kwargs['giftcard']
    post,           \* request -> request.POST
    t,              \* request -> pk of the transaction to revert (0: none)
    seen,           \* request -> the self.object.value it compared
    value,          \* request -> the parsed manual value
    pendTx,         \* request -> transaction rows written, not yet committed
    pendPay,        \* request -> payment rows written, not yet committed
    pendLog,        \* request -> log rows written, not yet committed
    msg,            \* request -> the message shown to the user
    resp,           \* request -> the response returned
    err,            \* request -> str(e) of the PaymentException caught
    execCalls,      \* request -> times execute_payment was called by it
    arrivals,       \* requests that have arrived so far
    lockOrder,      \* the detail-view requests in the order they took a row lock
    faults,         \* times log_action has raised so far
    cards,          \* pks of the organizer's committed GiftCard rows
    cardRow,        \* card pk -> the metadata of its committed row (active)
    cardSeq,        \* last pk given out by the GiftCard pk sequence
    meta,           \* request -> the metadata its update form writes
    teams,          \* pks of the organizer's committed Team rows
    members,        \* team pk -> the users of its committed membership rows
    invites,        \* team pk -> the e-mails of its committed TeamInvite rows
    twrite          \* request -> the team write it has made, not yet committed

vars == << transactions, payments, log, lockHolder, pc, card, post, t, seen, value,
           pendTx, pendPay, pendLog, msg, resp, err, execCalls, arrivals, lockOrder,
           faults, cards, cardRow, cardSeq, meta, teams, members, invites, twrite >>

locals == << t, seen, value, err, execCalls >>
store == << transactions, payments, log >>
pending == << pendTx, pendPay, pendLog >>
cardTable == << cards, cardRow, cardSeq, meta >>
teamVars == << teams, members, invites, twrite >>
\* What no step of GiftCardDetailView.post itself changes.
admin == << faults, cards, cardRow, cardSeq, meta, teams, members, invites, twrite >>

RECURSIVE SumValues(_, _)
\* Sum('value') over the rows of seq that belong to card c.
SumValues(seq, c) ==
    IF seq = << >> THEN 0
    ELSE (IF Head(seq).card = c THEN Head(seq).value ELSE 0) + SumValues(Tail(seq), c)

\* GiftCard.value as the database shows it outside any transaction.
Balance(c) == SumValues(transactions, c)

\* GiftCard.value as request r reads it: the committed rows and its own writes.
Value(r, c) == SumValues(transactions \o pendTx[r], c)

\* DecimalField(localize=True).to_python
ParseDecimal(text) ==
    CASE text = "" -> [kind |-> "none", v |-> 0]
      [] text = "-2" -> [kind |-> "decimal", v |-> 0 - 2]
      [] text = "1" -> [kind |-> "decimal", v |-> 1]
      [] OTHER -> [kind |-> "invalid", v |-> 0]

Init ==
    /\ transactions = InitialTransactions
    /\ payments = << >>
    /\ log = << >>
    /\ lockHolder = [c \in CardPks \cup NewCardPks |-> NoHolder]
    /\ pc = [r \in Reqs |-> "idle"]
    /\ card = [r \in Reqs |-> 1]
    /\ post = [r \in Reqs |-> NoPost]
    /\ t = [r \in Reqs |-> 0]
    /\ seen = [r \in Reqs |-> 0]
    /\ value = [r \in Reqs |-> ParseDecimal("")]
    /\ pendTx = [r \in Reqs |-> << >>]
    /\ pendPay = [r \in Reqs |-> << >>]
    /\ pendLog = [r \in Reqs |-> << >>]
    /\ msg = [r \in Reqs |-> "none"]
    /\ resp = [r \in Reqs |-> "none"]
    /\ err = [r \in Reqs |-> "none"]
    /\ execCalls = [r \in Reqs |-> 0]
    /\ arrivals = 0
    /\ lockOrder = << >>
    /\ faults = 0
    /\ cards = IssuedGiftCards
    /\ cardRow = [c \in CardPks \cup NewCardPks |-> TRUE]
    /\ cardSeq = 3
    /\ meta = [r \in Reqs |-> TRUE]
    /\ teams = TeamPks
    /\ members = InitialMembers
    /\ invites = [tm \in TeamPks |-> << >>]
    /\ twrite = [r \in Reqs |-> NoWrite]

\* A request reaches GiftCardDetailView.post. The request-handling threads are
\* interchangeable, so a new request is given the lowest free one.
Arrive(r) ==
    /\ pc[r] \in {"idle", "done"}
    /\ \A q \in Reqs : q < r => pc[q] \notin {"idle", "done"}
    /\ arrivals < MaxArrivals
    /\ \E c \in CardPks \cup cards : card' = [card EXCEPT ![r] = c]
    /\ post' = [post EXCEPT ![r] = NoPost]
    /\ arrivals' = arrivals + 1
    /\ pc' = [pc EXCEPT ![r] = "get_object"]
    /\ msg' = [msg EXCEPT ![r] = "none"]
    /\ resp' = [resp EXCEPT ![r] = "none"]
    /\ UNCHANGED << store, pending, locals, lockHolder, lockOrder, admin >>

\* get_object(): the card must be one of the organizer's issued gift cards.
GetObject(r) ==
    /\ pc[r] = "get_object"
    /\ IF card[r] \in cards
       THEN /\ pc' = [pc EXCEPT ![r] = "select_for_update"]
            /\ UNCHANGED resp
       ELSE /\ pc' = [pc EXCEPT ![r] = "done"]
            /\ resp' = [resp EXCEPT ![r] = "404"]
    /\ UNCHANGED << store, pending, lockHolder, lockOrder, card, post, locals, msg, arrivals, admin >>

\* SelectForUpdate with a plain .get(pk=...): no row lock is taken or waited for.
SelectForUpdate_NoLock(r) ==
    /\ pc[r] = "select_for_update"
    /\ \E b \in PostBodies :
        /\ post' = [post EXCEPT ![r] = b]
        /\ lockOrder' = Append(lockOrder, [card |-> card[r], post |-> b])
        /\ pc' = [pc EXCEPT ![r] =
                    IF b.hasRevert THEN "find_transaction"
                    ELSE IF b.hasValue THEN "parse_value"
                    ELSE "commit"]
        /\ resp' = [resp EXCEPT ![r] =
                    IF b.hasRevert \/ b.hasValue THEN resp[r] ELSE "page"]
    /\ UNCHANGED << store, pending, lockHolder, card, locals, msg, arrivals, admin >>

\* SelectForUpdate with a lock on the whole table of gift cards: it waits
\* while any card is locked.
SelectForUpdate_TableLock(r) ==
    /\ pc[r] = "select_for_update"
    /\ \A c \in DOMAIN lockHolder : lockHolder[c] = NoHolder
    /\ lockHolder' = [lockHolder EXCEPT ![card[r]] = r]
    /\ \E b \in PostBodies :
        /\ post' = [post EXCEPT ![r] = b]
        /\ lockOrder' = Append(lockOrder, [card |-> card[r], post |-> b])
        /\ pc' = [pc EXCEPT ![r] =
                    IF b.hasRevert THEN "find_transaction"
                    ELSE IF b.hasValue THEN "parse_value"
                    ELSE "commit"]
        /\ resp' = [resp EXCEPT ![r] =
                    IF b.hasRevert \/ b.hasValue THEN resp[r] ELSE "page"]
    /\ UNCHANGED << store, pending, card, locals, msg, arrivals, admin >>

\* SelectForUpdate of a post() that tests 'value' before 'revert'.
SelectForUpdate_ValueFirst(r) ==
    /\ pc[r] = "select_for_update"
    /\ lockHolder[card[r]] = NoHolder
    /\ lockHolder' = [lockHolder EXCEPT ![card[r]] = r]
    /\ \E b \in PostBodies :
        /\ post' = [post EXCEPT ![r] = b]
        /\ lockOrder' = Append(lockOrder, [card |-> card[r], post |-> b])
        /\ pc' = [pc EXCEPT ![r] =
                    IF b.hasValue THEN "parse_value"
                    ELSE IF b.hasRevert THEN "find_transaction"
                    ELSE "commit"]
        /\ resp' = [resp EXCEPT ![r] =
                    IF b.hasRevert \/ b.hasValue THEN resp[r] ELSE "page"]
    /\ UNCHANGED << store, pending, card, locals, msg, arrivals, admin >>

\* GiftCard.objects.select_for_update().get(pk=...): blocks while another
\* transaction holds the row lock. request.POST is first read right after
\* it, so the body of the request is drawn here; then the branch of post()
\* is chosen.
SelectForUpdate(r) ==
    /\ pc[r] = "select_for_update"
    /\ lockHolder[card[r]] = NoHolder
    /\ lockHolder' = [lockHolder EXCEPT ![card[r]] = r]
    /\ \E b \in PostBodies :
        /\ post' = [post EXCEPT ![r] = b]
        /\ lockOrder' = Append(lockOrder, [card |-> card[r], post |-> b])
        /\ pc' = [pc EXCEPT ![r] =
                    IF b.hasRevert THEN "find_transaction"
                    ELSE IF b.hasValue THEN "parse_value"
                    ELSE "commit"]
        /\ resp' = [resp EXCEPT ![r] =
                    IF b.hasRevert \/ b.hasValue THEN resp[r] ELSE "page"]
    /\ UNCHANGED << store, pending, card, locals, msg, arrivals, admin >>

\* FindTransaction over GiftCardTransaction.objects: the card is not compared.
FindTransaction_AnyCard(c, k) ==
    IF /\ k \in 1..Len(transactions)
       /\ transactions[k].order # NoOrder
    THEN k ELSE 0

\* The row of self.object.transactions.all() with pk = k and order__isnull=False.
FindTransaction(c, k) ==
    IF /\ k \in 1..Len(transactions)
       /\ transactions[k].card = c
       /\ transactions[k].order # NoOrder
    THEN k ELSE 0

\* get_object_or_404 for the transaction to revert; Http404 leaves the atomic
\* block by an exception: the transaction is rolled back and the lock released.
GetTransaction(r) ==
    /\ pc[r] = "find_transaction"
    /\ LET k == FindTransaction(card[r], post[r].revert) IN
        IF k # 0
        THEN /\ t' = [t EXCEPT ![r] = k]
             /\ pc' = [pc EXCEPT ![r] = "revert_guard"]
             /\ UNCHANGED << resp, lockHolder, pending >>
        ELSE /\ resp' = [resp EXCEPT ![r] = "404"]
             /\ pc' = [pc EXCEPT ![r] = "done"]
             /\ lockHolder' = [lockHolder EXCEPT ![card[r]] = NoHolder]
             /\ pendTx' = [pendTx EXCEPT ![r] = << >>]
             /\ pendPay' = [pendPay EXCEPT ![r] = << >>]
             /\ pendLog' = [pendLog EXCEPT ![r] = << >>]
             /\ UNCHANGED t
    /\ UNCHANGED << store, lockOrder, card, post, seen, value, err, execCalls, msg, arrivals, admin >>

\* RevertGuard with a plain else in place of elif t.value > 0.
RevertGuard_NoPositiveCheck(r) ==
    /\ pc[r] = "revert_guard"
    /\ LET current == Value(r, card[r])
           tv == transactions[t[r]].value
       IN
        /\ seen' = [seen EXCEPT ![r] = current]
        /\ IF current - tv < 0
           THEN /\ msg' = [msg EXCEPT ![r] = "negative"]
                /\ resp' = [resp EXCEPT ![r] = "page"]
                /\ pc' = [pc EXCEPT ![r] = "commit"]
           ELSE /\ pc' = [pc EXCEPT ![r] = "create_payment"]
                /\ UNCHANGED << msg, resp >>
    /\ UNCHANGED << store, pending, lockHolder, lockOrder, card, post, t, value, err, execCalls, arrivals, admin >>

\* RevertGuard without the comparison of the balance against t.value.
RevertGuard_NoGuard(r) ==
    /\ pc[r] = "revert_guard"
    /\ LET tv == transactions[t[r]].value IN
        /\ seen' = [seen EXCEPT ![r] = Value(r, card[r])]
        /\ IF tv > 0
           THEN /\ pc' = [pc EXCEPT ![r] = "create_payment"]
                /\ UNCHANGED << msg, resp >>
           ELSE /\ resp' = [resp EXCEPT ![r] = "page"]
                /\ pc' = [pc EXCEPT ![r] = "commit"]
                /\ UNCHANGED msg
    /\ UNCHANGED << store, pending, lockHolder, lockOrder, card, post, t, value, err, execCalls, arrivals, admin >>

\* if self.object.value - t.value < Decimal('0.00'): ... elif t.value > 0: ...
RevertGuard(r) ==
    /\ pc[r] = "revert_guard"
    /\ LET current == Value(r, card[r])
           tv == transactions[t[r]].value
       IN
        /\ seen' = [seen EXCEPT ![r] = current]
        /\ IF current - tv < 0
           THEN /\ msg' = [msg EXCEPT ![r] = "negative"]
                /\ resp' = [resp EXCEPT ![r] = "page"]
                /\ pc' = [pc EXCEPT ![r] = "commit"]
           ELSE IF tv > 0
           THEN /\ pc' = [pc EXCEPT ![r] = "create_payment"]
                /\ UNCHANGED << msg, resp >>
           ELSE /\ resp' = [resp EXCEPT ![r] = "page"]
                /\ pc' = [pc EXCEPT ![r] = "commit"]
                /\ UNCHANGED msg
    /\ UNCHANGED << store, pending, lockHolder, lockOrder, card, post, t, value, err, execCalls, arrivals, admin >>

\* CreatePayment with amount=self.object.value in place of amount=t.value.
CreatePayment_BalanceAmount(r) ==
    /\ pc[r] = "create_payment"
    /\ pendPay' = [pendPay EXCEPT ![r] = Append(@,
            [order |-> transactions[t[r]].order,
             state |-> PAYMENT_STATE_CREATED,
             amount |-> Value(r, card[r]),
             provider |-> "giftcard",
             info |-> [gift_card |-> card[r], retry |-> TRUE]])]
    /\ pc' = [pc EXCEPT ![r] = "execute_payment"]
    /\ UNCHANGED << store, pendTx, pendLog, lockHolder, lockOrder, card, post, locals, msg, resp, arrivals, admin >>

\* CreatePayment that reopens a failed payment of the same order, when there
\* is one, in place of creating a new payment.
CreatePayment_ReopensFailed(r) ==
    /\ pc[r] = "create_payment"
    /\ LET old == {i \in 1..Len(payments) :
                    /\ payments[i].state = PAYMENT_STATE_FAILED
                    /\ payments[i].order = transactions[t[r]].order}
       IN
        IF old # {}
        THEN /\ payments' = [payments EXCEPT ![CHOOSE i \in old : TRUE].state = PAYMENT_STATE_CREATED]
             /\ UNCHANGED pendPay
        ELSE /\ pendPay' = [pendPay EXCEPT ![r] = Append(@,
                    [order |-> transactions[t[r]].order,
                     state |-> PAYMENT_STATE_CREATED,
                     amount |-> transactions[t[r]].value,
                     provider |-> "giftcard",
                     info |-> [gift_card |-> card[r], retry |-> TRUE]])]
             /\ UNCHANGED payments
    /\ pc' = [pc EXCEPT ![r] = "execute_payment"]
    /\ UNCHANGED << transactions, log, pendTx, pendLog, lockHolder, lockOrder, card, post, locals, msg, resp, arrivals, admin >>

\* r = t.order.payments.create(...)
CreatePayment(r) ==
    /\ pc[r] = "create_payment"
    /\ pendPay' = [pendPay EXCEPT ![r] = Append(@,
            [order |-> transactions[t[r]].order,
             state |-> PAYMENT_STATE_CREATED,
             amount |-> transactions[t[r]].value,
             provider |-> "giftcard",
             info |-> [gift_card |-> card[r], retry |-> TRUE]])]
    /\ pc' = [pc EXCEPT ![r] = "execute_payment"]
    /\ UNCHANGED << store, pendTx, pendLog, lockHolder, lockOrder, card, post, locals, msg, resp, arrivals, admin >>

\* ExecutePayment after the card's row lock has been given up.
ExecutePayment_OutsideLock(r) ==
    /\ pc[r] = "execute_payment"
    /\ execCalls' = [execCalls EXCEPT ![r] = @ + 1]
    /\ lockHolder' = [lockHolder EXCEPT ![card[r]] = NoHolder]
    /\ pc' = [pc EXCEPT ![r] = "executing"]
    /\ UNCHANGED << store, pending, lockOrder, card, post, t, seen, value, err, msg, resp, arrivals, admin >>

\* r.payment_provider.execute_payment(request, r) is entered.
ExecutePayment(r) ==
    /\ pc[r] = "execute_payment"
    /\ execCalls' = [execCalls EXCEPT ![r] = @ + 1]
    /\ pc' = [pc EXCEPT ![r] = "executing"]
    /\ UNCHANGED << store, pending, lockHolder, lockOrder, card, post, t, seen, value, err, msg, resp, arrivals, admin >>

\* The payment capability returns: it leaves the attempt in a state of its
\* choice and, when it confirms the payment, books the compensating
\* transaction on the card through the order-payment path.
ProviderReturns(r) ==
    /\ pc[r] = "executing"
    /\ \E st \in {PAYMENT_STATE_CREATED, PAYMENT_STATE_PENDING, PAYMENT_STATE_CONFIRMED} :
        /\ pendPay' = [pendPay EXCEPT ![r][Len(pendPay[r])].state = st]
        /\ pendTx' = [pendTx EXCEPT ![r] =
                IF st = PAYMENT_STATE_CONFIRMED
                THEN Append(@, [card |-> card[r],
                                value |-> 0 - pendPay[r][Len(pendPay[r])].amount,
                                text |-> NoText,
                                order |-> pendPay[r][Len(pendPay[r])].order])
                ELSE @]
    /\ pc' = [pc EXCEPT ![r] = "reversed"]
    /\ UNCHANGED << store, pendLog, lockHolder, lockOrder, card, post, locals, msg, resp, arrivals, admin >>

\* The payment capability raises PaymentException; it has changed nothing.
ProviderRaises(r) ==
    /\ pc[r] = "executing"
    /\ \E e \in PaymentErrors : err' = [err EXCEPT ![r] = e]
    /\ pc' = [pc EXCEPT ![r] = "payment_failed"]
    /\ UNCHANGED << store, pending, lockHolder, lockOrder, card, post, t, seen, value, execCalls, msg, resp, arrivals, admin >>

\* PaymentFailed without r.save(): the attempt keeps its state.
PaymentFailed_NotSaved(r) ==
    /\ pc[r] = "payment_failed"
    /\ pendLog' = [pendLog EXCEPT ![r] = Append(@,
            [object |-> transactions[t[r]].order,
             action |-> "pretix.event.order.payment.failed",
             data |-> [provider |-> pendPay[r][Len(pendPay[r])].provider,
                       error |-> err[r]]])]
    /\ msg' = [msg EXCEPT ![r] = "not_reversed"]
    /\ resp' = [resp EXCEPT ![r] = "page"]
    /\ pc' = [pc EXCEPT ![r] = "commit"]
    /\ UNCHANGED << store, pendTx, pendPay, lockHolder, lockOrder, card, post, locals, arrivals, admin >>

\* except PaymentException as e: mark the payment failed, log, message.
PaymentFailed(r) ==
    /\ pc[r] = "payment_failed"
    /\ pendPay' = [pendPay EXCEPT ![r][Len(pendPay[r])].state = PAYMENT_STATE_FAILED]
    /\ pendLog' = [pendLog EXCEPT ![r] = Append(@,
            [object |-> transactions[t[r]].order,
             action |-> "pretix.event.order.payment.failed",
             data |-> [provider |-> pendPay[r][Len(pendPay[r])].provider,
                       error |-> err[r]]])]
    /\ msg' = [msg EXCEPT ![r] = "not_reversed"]
    /\ resp' = [resp EXCEPT ![r] = "page"]
    /\ pc' = [pc EXCEPT ![r] = "commit"]
    /\ UNCHANGED << store, pendTx, lockHolder, lockOrder, card, post, locals, arrivals, admin >>

\* PaymentSucceeded that also deletes the reverted transaction (t.delete()).
PaymentSucceeded_DeletesOriginal(r) ==
    /\ pc[r] = "reversed"
    /\ transactions' = SubSeq(transactions, 1, t[r] - 1)
                       \o SubSeq(transactions, t[r] + 1, Len(transactions))
    /\ msg' = [msg EXCEPT ![r] = "reversed"]
    /\ resp' = [resp EXCEPT ![r] = "page"]
    /\ pc' = [pc EXCEPT ![r] = "commit"]
    /\ UNCHANGED << payments, log, pending, lockHolder, lockOrder, card, post, locals, arrivals, admin >>

\* PaymentSucceeded that books the compensating transaction itself.
PaymentSucceeded_AppendsCompensation(r) ==
    /\ pc[r] = "reversed"
    /\ pendTx' = [pendTx EXCEPT ![r] = Append(@,
            [card |-> card[r],
             value |-> 0 - transactions[t[r]].value,
             text |-> NoText,
             order |-> transactions[t[r]].order])]
    /\ msg' = [msg EXCEPT ![r] = "reversed"]
    /\ resp' = [resp EXCEPT ![r] = "page"]
    /\ pc' = [pc EXCEPT ![r] = "commit"]
    /\ UNCHANGED << store, pendPay, pendLog, lockHolder, lockOrder, card, post, locals, arrivals, admin >>

\* PaymentSucceeded that writes an audit record for the reversal.
PaymentSucceeded_Logs(r) ==
    /\ pc[r] = "reversed"
    /\ pendLog' = [pendLog EXCEPT ![r] = Append(@,
            [object |-> "giftcard",
             action |-> "pretix.giftcards.transaction.reversed",
             data |-> [transaction |-> t[r]]])]
    /\ msg' = [msg EXCEPT ![r] = "reversed"]
    /\ resp' = [resp EXCEPT ![r] = "page"]
    /\ pc' = [pc EXCEPT ![r] = "commit"]
    /\ UNCHANGED << store, pendTx, pendPay, lockHolder, lockOrder, card, post, locals, arrivals, admin >>

\* else: messages.success(..., 'The transaction has been reversed.')
PaymentSucceeded(r) ==
    /\ pc[r] = "reversed"
    /\ msg' = [msg EXCEPT ![r] = "reversed"]
    /\ resp' = [resp EXCEPT ![r] = "page"]
    /\ pc' = [pc EXCEPT ![r] = "commit"]
    /\ UNCHANGED << store, pending, lockHolder, lockOrder, card, post, locals, arrivals, admin >>

\* value = DecimalField(localize=True).to_python(request.POST.get('value'))
ParseValue(r) ==
    /\ pc[r] = "parse_value"
    /\ LET d == ParseDecimal(post[r].value) IN
        IF d.kind = "invalid"
        THEN /\ msg' = [msg EXCEPT ![r] = "invalid"]
             /\ resp' = [resp EXCEPT ![r] = "page"]
             /\ pc' = [pc EXCEPT ![r] = "commit"]
             /\ UNCHANGED value
        ELSE /\ value' = [value EXCEPT ![r] = d]
             /\ pc' = [pc EXCEPT ![r] = "check_balance"]
             /\ UNCHANGED << msg, resp >>
    /\ UNCHANGED << store, pending, lockHolder, lockOrder, card, post, t, seen, err, execCalls, arrivals, admin >>

\* CheckBalance without the comparison against zero.
CheckBalance_NoCheck(r) ==
    /\ pc[r] = "check_balance"
    /\ value[r].kind = "decimal"
    /\ seen' = [seen EXCEPT ![r] = Value(r, card[r])]
    /\ pc' = [pc EXCEPT ![r] = "create_transaction"]
    /\ UNCHANGED << store, pending, lockHolder, lockOrder, card, post, t, value, err, execCalls, msg, resp, arrivals, admin >>

\* if self.object.value + value < Decimal('0.00'): with value None (an empty
\* field) the addition raises TypeError, which leaves the atomic block.
CheckBalance(r) ==
    /\ pc[r] = "check_balance"
    /\ IF value[r].kind = "none"
       THEN /\ resp' = [resp EXCEPT ![r] = "500"]
            /\ pc' = [pc EXCEPT ![r] = "done"]
            /\ lockHolder' = [lockHolder EXCEPT ![card[r]] = NoHolder]
            /\ pendTx' = [pendTx EXCEPT ![r] = << >>]
            /\ pendPay' = [pendPay EXCEPT ![r] = << >>]
            /\ pendLog' = [pendLog EXCEPT ![r] = << >>]
            /\ UNCHANGED << seen, msg >>
       ELSE LET current == Value(r, card[r]) IN
            /\ seen' = [seen EXCEPT ![r] = current]
            /\ UNCHANGED << lockHolder, pending >>
            /\ IF current + value[r].v < 0
               THEN /\ msg' = [msg EXCEPT ![r] = "negative"]
                    /\ resp' = [resp EXCEPT ![r] = "page"]
                    /\ pc' = [pc EXCEPT ![r] = "commit"]
               ELSE /\ pc' = [pc EXCEPT ![r] = "create_transaction"]
                    /\ UNCHANGED << msg, resp >>
    /\ UNCHANGED << store, lockOrder, card, post, t, value, err, execCalls, arrivals, admin >>

\* CreateTransaction with the sign of the value lost.
CreateTransaction_NegatedValue(r) ==
    /\ pc[r] = "create_transaction"
    /\ pendTx' = [pendTx EXCEPT ![r] = Append(@,
            [card |-> card[r],
             value |-> 0 - value[r].v,
             text |-> IF post[r].text = "" THEN NoText ELSE post[r].text,
             order |-> NoOrder])]
    /\ pc' = [pc EXCEPT ![r] = "log_action"]
    /\ UNCHANGED << store, pendPay, pendLog, lockHolder, lockOrder, card, post, locals, msg, resp, arrivals, admin >>

\* self.object.transactions.create(value=value, text=request.POST.get('text') or None)
CreateTransaction(r) ==
    /\ pc[r] = "create_transaction"
    /\ pendTx' = [pendTx EXCEPT ![r] = Append(@,
            [card |-> card[r],
             value |-> value[r].v,
             text |-> IF post[r].text = "" THEN NoText ELSE post[r].text,
             order |-> NoOrder])]
    /\ pc' = [pc EXCEPT ![r] = "log_action"]
    /\ UNCHANGED << store, pendPay, pendLog, lockHolder, lockOrder, card, post, locals, msg, resp, arrivals, admin >>

\* LogAction without the log_action call.
LogAction_Skipped(r) ==
    /\ pc[r] = "log_action"
    /\ msg' = [msg EXCEPT ![r] = "saved"]
    /\ resp' = [resp EXCEPT ![r] = "redirect"]
    /\ pc' = [pc EXCEPT ![r] = "commit"]
    /\ UNCHANGED << store, pending, lockHolder, lockOrder, card, post, locals, arrivals, admin >>

\* self.object.log_action('pretix.giftcards.transaction.manual', ...), the
\* success message and the redirect.
LogAction(r) ==
    /\ pc[r] = "log_action"
    /\ pendLog' = [pendLog EXCEPT ![r] = Append(@,
            [object |-> "giftcard",
             action |-> "pretix.giftcards.transaction.manual",
             data |-> [value |-> value[r].v, text |-> post[r].text]])]
    /\ msg' = [msg EXCEPT ![r] = "saved"]
    /\ resp' = [resp EXCEPT ![r] = "redirect"]
    /\ pc' = [pc EXCEPT ![r] = "commit"]
    /\ UNCHANGED << store, pendTx, pendPay, lockHolder, lockOrder, card, post, locals, arrivals, admin >>

\* LogActionRaises with the transaction row written outside the atomic block:
\* the exception no longer takes the row back.
LogActionRaises_KeepsTransaction(r) ==
    /\ pc[r] = "log_action"
    /\ faults < MaxFaults
    /\ faults' = faults + 1
    /\ transactions' = transactions \o pendTx[r]
    /\ resp' = [resp EXCEPT ![r] = "500"]
    /\ pc' = [pc EXCEPT ![r] = "done"]
    /\ lockHolder' = [lockHolder EXCEPT ![card[r]] = NoHolder]
    /\ pendTx' = [pendTx EXCEPT ![r] = << >>]
    /\ pendPay' = [pendPay EXCEPT ![r] = << >>]
    /\ pendLog' = [pendLog EXCEPT ![r] = << >>]
    /\ seen' = [seen EXCEPT ![r] = 0]
    /\ value' = [value EXCEPT ![r] = ParseDecimal("")]
    /\ UNCHANGED << payments, log, lockOrder, card, post, t, err, execCalls, msg, arrivals, teamVars, cardTable >>

\* log_action raises (the audit record cannot be written): post() has no
\* handler for it, so the exception leaves the atomic block, the transaction
\* is rolled back and the row lock released.
LogActionRaises(r) ==
    /\ pc[r] = "log_action"
    /\ faults < MaxFaults
    /\ faults' = faults + 1
    /\ resp' = [resp EXCEPT ![r] = "500"]
    /\ pc' = [pc EXCEPT ![r] = "done"]
    /\ lockHolder' = [lockHolder EXCEPT ![card[r]] = NoHolder]
    /\ pendTx' = [pendTx EXCEPT ![r] = << >>]
    /\ pendPay' = [pendPay EXCEPT ![r] = << >>]
    /\ pendLog' = [pendLog EXCEPT ![r] = << >>]
    /\ seen' = [seen EXCEPT ![r] = 0]
    /\ value' = [value EXCEPT ![r] = ParseDecimal("")]
    /\ UNCHANGED << store, lockOrder, card, post, t, err, execCalls, msg, arrivals, teamVars, cardTable >>

\* Commit that leaves the row lock taken.
Commit_KeepsLock(r) ==
    /\ pc[r] = "commit"
    /\ transactions' = transactions \o pendTx[r]
    /\ payments' = payments \o pendPay[r]
    /\ log' = log \o pendLog[r]
    /\ pendTx' = [pendTx EXCEPT ![r] = << >>]
    /\ pendPay' = [pendPay EXCEPT ![r] = << >>]
    /\ pendLog' = [pendLog EXCEPT ![r] = << >>]
    /\ pc' = [pc EXCEPT ![r] = "done"]
    /\ t' = [t EXCEPT ![r] = 0]
    /\ seen' = [seen EXCEPT ![r] = 0]
    /\ value' = [value EXCEPT ![r] = ParseDecimal("")]
    /\ err' = [err EXCEPT ![r] = "none"]
    /\ execCalls' = [execCalls EXCEPT ![r] = 0]
    /\ UNCHANGED << lockHolder, lockOrder, card, post, msg, resp, arrivals, admin >>

\* The atomic block of post() is left normally: the writes are committed and
\* the row lock is released.
Commit(r) ==
    /\ pc[r] = "commit"
    /\ transactions' = transactions \o pendTx[r]
    /\ payments' = payments \o pendPay[r]
    /\ log' = log \o pendLog[r]
    /\ pendTx' = [pendTx EXCEPT ![r] = << >>]
    /\ pendPay' = [pendPay EXCEPT ![r] = << >>]
    /\ pendLog' = [pendLog EXCEPT ![r] = << >>]
    /\ lockHolder' = [lockHolder EXCEPT ![card[r]] = NoHolder]
    /\ pc' = [pc EXCEPT ![r] = "done"]
    /\ t' = [t EXCEPT ![r] = 0]
    /\ seen' = [seen EXCEPT ![r] = 0]
    /\ value' = [value EXCEPT ![r] = ParseDecimal("")]
    /\ err' = [err EXCEPT ![r] = "none"]
    /\ execCalls' = [execCalls EXCEPT ![r] = 0]
    /\ UNCHANGED << lockOrder, card, post, msg, resp, arrivals, admin >>

(***************************************************************************)
(* GiftCardCreateView and GiftCardUpdateView                               *)
(***************************************************************************)

\* GiftCardCreateForm.is_valid() for the posted value: the initial
\* transaction may not be negative.
CreateFormIsValid_AcceptsAll(v) == TRUE

CreateFormIsValid(v) == v >= 0

\* A request reaches GiftCardCreateView.post; the pk of the card is not
\* known before the row is saved.
ArriveCreate(r) ==
    /\ pc[r] \in {"idle", "done"}
    /\ \A q \in Reqs : q < r => pc[q] \notin {"idle", "done"}
    /\ arrivals < MaxArrivals
    /\ post' = [post EXCEPT ![r] = NoPost]
    /\ arrivals' = arrivals + 1
    /\ pc' = [pc EXCEPT ![r] = "c_post"]
    /\ msg' = [msg EXCEPT ![r] = "none"]
    /\ resp' = [resp EXCEPT ![r] = "none"]
    /\ UNCHANGED << store, pending, locals, lockHolder, lockOrder, card, admin >>

\* @transaction.atomic() post(): the form is validated; an invalid form is
\* shown again and the atomic block is left with nothing written.
CreatePost(r) ==
    /\ pc[r] = "c_post"
    /\ \E v \in CreateValues :
        IF CreateFormIsValid(v)
        THEN /\ value' = [value EXCEPT ![r] = [kind |-> "decimal", v |-> v]]
             /\ pc' = [pc EXCEPT ![r] = "c_form_valid"]
             /\ UNCHANGED << msg, resp >>
        ELSE /\ msg' = [msg EXCEPT ![r] = "invalid"]
             /\ resp' = [resp EXCEPT ![r] = "giftcard_create.html"]
             /\ pc' = [pc EXCEPT ![r] = "done"]
             /\ UNCHANGED value
    /\ UNCHANGED << store, pending, lockHolder, lockOrder, card, post, t, seen, err, execCalls, arrivals, admin >>

\* CreateFormValid that skips the initial transaction when the value is zero.
CreateFormValid_SkipsZero(r) ==
    /\ pc[r] = "c_form_valid"
    /\ cardSeq + 1 \in NewCardPks
    /\ cardSeq' = cardSeq + 1
    /\ card' = [card EXCEPT ![r] = cardSeq + 1]
    /\ msg' = [msg EXCEPT ![r] = "created"]
    /\ pendTx' = [pendTx EXCEPT ![r] =
            IF value[r].v = 0 THEN @
            ELSE Append(@, [card |-> cardSeq + 1,
                            value |-> value[r].v,
                            text |-> NoText,
                            order |-> NoOrder])]
    /\ pendLog' = [pendLog EXCEPT ![r] =
            @ \o << [object |-> "giftcard",
                     action |-> "pretix.giftcards.created",
                     data |-> [card |-> cardSeq + 1]] >>
              \o (IF value[r].v # 0
                  THEN << [object |-> "giftcard",
                           action |-> "pretix.giftcards.transaction.manual",
                           data |-> [value |-> value[r].v]] >>
                  ELSE << >>)]
    /\ resp' = [resp EXCEPT ![r] = "redirect"]
    /\ pc' = [pc EXCEPT ![r] = "c_commit"]
    /\ UNCHANGED << store, pendPay, lockHolder, lockOrder, post, locals, arrivals, teamVars,
                    faults, cards, cardRow, meta >>

\* CreateFormValid that writes the manual audit record for every value.
CreateFormValid_AlwaysLogsManual(r) ==
    /\ pc[r] = "c_form_valid"
    /\ cardSeq + 1 \in NewCardPks
    /\ cardSeq' = cardSeq + 1
    /\ card' = [card EXCEPT ![r] = cardSeq + 1]
    /\ msg' = [msg EXCEPT ![r] = "created"]
    /\ pendTx' = [pendTx EXCEPT ![r] = Append(@,
            [card |-> cardSeq + 1,
             value |-> value[r].v,
             text |-> NoText,
             order |-> NoOrder])]
    /\ pendLog' = [pendLog EXCEPT ![r] =
            @ \o << [object |-> "giftcard",
                     action |-> "pretix.giftcards.created",
                     data |-> [card |-> cardSeq + 1]],
                    [object |-> "giftcard",
                     action |-> "pretix.giftcards.transaction.manual",
                     data |-> [value |-> value[r].v]] >>]
    /\ resp' = [resp EXCEPT ![r] = "redirect"]
    /\ pc' = [pc EXCEPT ![r] = "c_commit"]
    /\ UNCHANGED << store, pendPay, lockHolder, lockOrder, post, locals, arrivals, teamVars,
                    faults, cards, cardRow, meta >>

\* form_valid: messages.success, super().form_valid(form), which inserts the
\* GiftCard row, transactions.create(value=form.cleaned_data['value']),
\* log_action('pretix.giftcards.created'), then, if the value is not zero,
\* log_action('pretix.giftcards.transaction.manual'), and the redirect.
CreateFormValid(r) ==
    /\ pc[r] = "c_form_valid"
    /\ cardSeq + 1 \in NewCardPks
    /\ cardSeq' = cardSeq + 1
    /\ card' = [card EXCEPT ![r] = cardSeq + 1]
    /\ msg' = [msg EXCEPT ![r] = "created"]
    /\ pendTx' = [pendTx EXCEPT ![r] = Append(@,
            [card |-> cardSeq + 1,
             value |-> value[r].v,
             text |-> NoText,
             order |-> NoOrder])]
    /\ pendLog' = [pendLog EXCEPT ![r] =
            @ \o << [object |-> "giftcard",
                     action |-> "pretix.giftcards.created",
                     data |-> [card |-> cardSeq + 1]] >>
              \o (IF value[r].v # 0
                  THEN << [object |-> "giftcard",
                           action |-> "pretix.giftcards.transaction.manual",
                           data |-> [value |-> value[r].v]] >>
                  ELSE << >>)]
    /\ resp' = [resp EXCEPT ![r] = "redirect"]
    /\ pc' = [pc EXCEPT ![r] = "c_commit"]
    /\ UNCHANGED << store, pendPay, lockHolder, lockOrder, post, locals, arrivals, teamVars,
                    faults, cards, cardRow, meta >>

\* The atomic block of GiftCardCreateView.post is left: the card row, its
\* initial transaction and the log rows are committed together.
CommitCreate(r) ==
    /\ pc[r] = "c_commit"
    /\ cards' = cards \cup {card[r]}
    /\ transactions' = transactions \o pendTx[r]
    /\ log' = log \o pendLog[r]
    /\ pendTx' = [pendTx EXCEPT ![r] = << >>]
    /\ pendLog' = [pendLog EXCEPT ![r] = << >>]
    /\ value' = [value EXCEPT ![r] = ParseDecimal("")]
    /\ pc' = [pc EXCEPT ![r] = "done"]
    /\ UNCHANGED << payments, pendPay, lockHolder, lockOrder, card, post, t, seen, err, execCalls,
                    msg, resp, arrivals, teamVars, faults, cardRow, cardSeq, meta >>

\* A request reaches GiftCardUpdateView.
ArriveUpdate(r) ==
    /\ pc[r] \in {"idle", "done"}
    /\ \A q \in Reqs : q < r => pc[q] \notin {"idle", "done"}
    /\ arrivals < MaxArrivals
    /\ \E c \in CardPks \cup cards : card' = [card EXCEPT ![r] = c]
    /\ post' = [post EXCEPT ![r] = NoPost]
    /\ arrivals' = arrivals + 1
    /\ pc' = [pc EXCEPT ![r] = "u_post"]
    /\ msg' = [msg EXCEPT ![r] = "none"]
    /\ resp' = [resp EXCEPT ![r] = "none"]
    /\ UNCHANGED << store, pending, locals, lockHolder, lockOrder, admin >>

\* post(): get_object() is get_object_or_404 on the organizer's issued gift
\* cards, a plain read that takes no lock and waits for none; then the form
\* is validated: an invalid form is shown again, a valid one carries the
\* metadata to write.
UpdatePost(r) ==
    /\ pc[r] = "u_post"
    /\ IF card[r] \notin cards
       THEN /\ pc' = [pc EXCEPT ![r] = "done"]
            /\ resp' = [resp EXCEPT ![r] = "404"]
            /\ UNCHANGED << msg, meta >>
       ELSE \E f \in UpdateForms :
            IF f = "invalid"
            THEN /\ msg' = [msg EXCEPT ![r] = "invalid"]
                 /\ resp' = [resp EXCEPT ![r] = "giftcard_edit.html"]
                 /\ pc' = [pc EXCEPT ![r] = "done"]
                 /\ UNCHANGED meta
            ELSE /\ meta' = [meta EXCEPT ![r] = (f = "activate")]
                 /\ pc' = [pc EXCEPT ![r] = "u_form_valid"]
                 /\ UNCHANGED << msg, resp >>
    /\ UNCHANGED << store, pending, lockHolder, lockOrder, card, post, locals, arrivals, teamVars,
                    faults, cards, cardRow, cardSeq >>

\* UpdateFormValid that writes the row without waiting for its lock.
UpdateFormValid_NoWait(r) ==
    /\ pc[r] = "u_form_valid"
    /\ cardRow' = [cardRow EXCEPT ![card[r]] = meta[r]]
    /\ msg' = [msg EXCEPT ![r] = "changed"]
    /\ pendLog' = [pendLog EXCEPT ![r] = Append(@,
            [object |-> "giftcard",
             action |-> "pretix.giftcards.modified",
             data |-> [active |-> meta[r]]])]
    /\ resp' = [resp EXCEPT ![r] = "redirect"]
    /\ pc' = [pc EXCEPT ![r] = "u_commit"]
    /\ UNCHANGED << store, pendTx, pendPay, lockHolder, lockOrder, card, post, locals, arrivals, teamVars,
                    faults, cards, cardSeq, meta >>

\* @transaction.atomic() form_valid: messages.success, super().form_valid(form),
\* whose UPDATE of the GiftCard row waits for the row lock and holds it until
\* the atomic block is left, log_action('pretix.giftcards.modified', ...) and
\* the redirect.
UpdateFormValid(r) ==
    /\ pc[r] = "u_form_valid"
    /\ lockHolder[card[r]] = NoHolder
    /\ lockHolder' = [lockHolder EXCEPT ![card[r]] = r]
    /\ msg' = [msg EXCEPT ![r] = "changed"]
    /\ pendLog' = [pendLog EXCEPT ![r] = Append(@,
            [object |-> "giftcard",
             action |-> "pretix.giftcards.modified",
             data |-> [active |-> meta[r]]])]
    /\ resp' = [resp EXCEPT ![r] = "redirect"]
    /\ pc' = [pc EXCEPT ![r] = "u_commit"]
    /\ UNCHANGED << store, pendTx, pendPay, lockOrder, card, post, locals, arrivals, admin >>

\* CommitUpdate of a view that also clears the ledger of the card it changes.
CommitUpdate_ClearsLedger(r) ==
    /\ pc[r] = "u_commit"
    /\ cardRow' = [cardRow EXCEPT ![card[r]] = meta[r]]
    /\ transactions' = [i \in DOMAIN transactions |->
            IF transactions[i].card = card[r]
            THEN [transactions[i] EXCEPT !.value = 0]
            ELSE transactions[i]]
    /\ log' = log \o pendLog[r]
    /\ pendLog' = [pendLog EXCEPT ![r] = << >>]
    /\ lockHolder' = [lockHolder EXCEPT ![card[r]] = NoHolder]
    /\ meta' = [meta EXCEPT ![r] = TRUE]
    /\ pc' = [pc EXCEPT ![r] = "done"]
    /\ UNCHANGED << payments, pendTx, pendPay, lockOrder, card, post, locals, msg, resp,
                    arrivals, teamVars, faults, cards, cardSeq >>

\* The atomic block of form_valid is left: the row and the log row are
\* committed and the row lock is released.
CommitUpdate(r) ==
    /\ pc[r] = "u_commit"
    /\ cardRow' = [cardRow EXCEPT ![card[r]] = meta[r]]
    /\ log' = log \o pendLog[r]
    /\ pendLog' = [pendLog EXCEPT ![r] = << >>]
    /\ lockHolder' = [lockHolder EXCEPT ![card[r]] = NoHolder]
    /\ meta' = [meta EXCEPT ![r] = TRUE]
    /\ pc' = [pc EXCEPT ![r] = "done"]
    /\ UNCHANGED << transactions, payments, pendTx, pendPay, lockOrder, card, post, locals,
                    msg, resp, arrivals, teamVars, faults, cards, cardSeq >>

Next ==
    \E r \in Reqs :
        \/ Arrive(r)
        \/ GetObject(r)
        \/ SelectForUpdate(r)
        \/ GetTransaction(r)
        \/ RevertGuard(r)
        \/ CreatePayment(r)
        \/ ExecutePayment(r)
        \/ ProviderReturns(r)
        \/ ProviderRaises(r)
        \/ PaymentFailed(r)
        \/ PaymentSucceeded(r)
        \/ ParseValue(r)
        \/ CheckBalance(r)
        \/ CreateTransaction(r)
        \/ LogAction(r)
        \/ LogActionRaises(r)
        \/ Commit(r)

Spec == Init /\ [][Next]_vars

\* The three gift card views together.
NextLedger ==
    \/ Next
    \/ \E r \in Reqs :
        \/ ArriveCreate(r)
        \/ CreatePost(r)
        \/ CreateFormValid(r)
        \/ CommitCreate(r)
        \/ ArriveUpdate(r)
        \/ UpdatePost(r)
        \/ UpdateFormValid(r)
        \/ CommitUpdate(r)

LedgerSpec == Init /\ [][NextLedger]_vars

(***************************************************************************)
(* TeamDeleteView and TeamMemberView                                       *)
(* Both run in transaction.atomic and take no lock: a request reads the    *)
(* committed rows, and its own write becomes visible to the others when    *)
(* its atomic block is left.                                               *)
(***************************************************************************)

\* What no step of the team views changes.
giftVars == << transactions, payments, lockHolder, card, post, t, seen, value, pendTx,
               pendPay, err, execCalls, lockOrder, faults, cards, cardRow, cardSeq, meta >>

\* What email__iexact compares.
Lower(e) ==
    CASE e = "ANN@example.org" -> "ann@example.org"
      [] e = "New@example.org" -> "new@example.org"
      [] OTHER -> e

\* organizer.teams.exclude(pk=tm).filter(can_change_teams=True,
\* members__isnull=False).exists()
OtherAdminTeams(tm) ==
    \E o \in teams \ {tm} : CanChangeTeams[o] /\ members[o] # {}

\* Another request has inserted, and not yet committed, a membership or an
\* invite of team tm: the row holds a key-share lock on the team.
PendingInsert(r, tm) ==
    \E q \in Reqs \ {r} : twrite[q].op \in {"add_member", "create_invite"} /\ twrite[q].team = tm

\* Another request has deleted, and not yet committed, team tm.
PendingDelete(r, tm) ==
    \E q \in Reqs \ {r} : twrite[q].op = "delete_team" /\ twrite[q].team = tm

\* A request reaches TeamDeleteView or TeamMemberView.
ArriveTeam(r) ==
    /\ pc[r] \in {"idle", "done"}
    /\ \A q \in Reqs : q < r => pc[q] \notin {"idle", "done"}
    /\ arrivals < MaxArrivals
    /\ arrivals' = arrivals + 1
    /\ pc' = [pc EXCEPT ![r] = "t_post"]
    /\ msg' = [msg EXCEPT ![r] = "none"]
    /\ resp' = [resp EXCEPT ![r] = "none"]
    /\ UNCHANGED << giftVars, teamVars, log, pendLog >>

\* TeamDeleteView.form_valid: get_object, then is_allowed() decides between
\* log_action('pretix.team.deleted') with self.object.delete() and the error
\* message. A delete that meets a row inserted for the team by a request
\* still in its atomic block waits for it and then violates the foreign
\* key: the request fails and is rolled back.
TeamDeleteFormValid(r) ==
    /\ pc[r] = "t_post"
    /\ \E tm \in TeamPks :
        IF tm \notin teams
        THEN /\ resp' = [resp EXCEPT ![r] = "404"]
             /\ pc' = [pc EXCEPT ![r] = "done"]
             /\ UNCHANGED << msg, twrite, pendLog >>
        ELSE IF ~OtherAdminTeams(tm)
        THEN /\ resp' = [resp EXCEPT ![r] = "redirect"]
             /\ pc' = [pc EXCEPT ![r] = "t_commit"]
             /\ msg' = [msg EXCEPT ![r] = "cannot_delete"]
             /\ UNCHANGED << twrite, pendLog >>
        ELSE IF PendingInsert(r, tm)
        THEN /\ resp' = [resp EXCEPT ![r] = "500"]
             /\ pc' = [pc EXCEPT ![r] = "done"]
             /\ UNCHANGED << msg, twrite, pendLog >>
        ELSE /\ resp' = [resp EXCEPT ![r] = "redirect"]
             /\ pc' = [pc EXCEPT ![r] = "t_commit"]
             /\ twrite' = [twrite EXCEPT ![r] =
                    [op |-> "delete_team", team |-> tm, user |-> 0, email |-> ""]]
             /\ pendLog' = [pendLog EXCEPT ![r] = Append(@,
                    [object |-> "team", action |-> "pretix.team.deleted",
                     data |-> [team |-> tm]])]
             /\ msg' = [msg EXCEPT ![r] = "team_deleted"]
    /\ UNCHANGED << giftVars, teams, members, invites, log, arrivals >>

\* TeamMemberView.post with 'remove-member': an unknown user falls out of
\* the branch and the view returns no response; the last member of the last
\* team with can_change_teams is kept; otherwise members.remove(user) and
\* log_action('pretix.team.member.removed').
TeamRemoveMember(r) ==
    /\ pc[r] = "t_post"
    /\ \E tm \in TeamPks, u \in UserPks \cup {0} :
        IF tm \notin teams
        THEN /\ resp' = [resp EXCEPT ![r] = "404"]
             /\ pc' = [pc EXCEPT ![r] = "done"]
             /\ UNCHANGED << msg, twrite, pendLog >>
        ELSE IF u \notin UserPks
        THEN /\ resp' = [resp EXCEPT ![r] = "500"]
             /\ pc' = [pc EXCEPT ![r] = "done"]
             /\ UNCHANGED << msg, twrite, pendLog >>
        ELSE /\ resp' = [resp EXCEPT ![r] = "redirect"]
             /\ pc' = [pc EXCEPT ![r] = "t_commit"]
             /\ IF ~OtherAdminTeams(tm) /\ CanChangeTeams[tm] /\ Cardinality(members[tm]) = 1
                THEN /\ msg' = [msg EXCEPT ![r] = "cannot_remove"]
                     /\ UNCHANGED << twrite, pendLog >>
                ELSE /\ twrite' = [twrite EXCEPT ![r] =
                            [op |-> "remove_member", team |-> tm, user |-> u, email |-> ""]]
                     /\ pendLog' = [pendLog EXCEPT ![r] = Append(@,
                            [object |-> "team", action |-> "pretix.team.member.removed",
                             data |-> [email |-> UserEmail[u], user |-> u]])]
                     /\ msg' = [msg EXCEPT ![r] = "member_removed"]
    /\ UNCHANGED << giftVars, teams, members, invites, log, arrivals >>

\* TeamMemberView.post with a valid, changed add_form: a user with that
\* e-mail (iexact) is added as a member unless already one; without such a
\* user an invite is created unless the team has one for that e-mail
\* (iexact). The 'native' authentication backend is taken to be enabled. An
\* insert for a team that a request still in its atomic block has deleted
\* waits for it and then violates the foreign key.
TeamAddUser(r) ==
    /\ pc[r] = "t_post"
    /\ \E tm \in TeamPks, e \in PostedEmails :
        LET us == {u \in UserPks : Lower(UserEmail[u]) = Lower(e)}
            user == CHOOSE x \in us : TRUE
            refused == IF us = {}
                       THEN \E i \in 1..Len(invites[tm]) : Lower(invites[tm][i]) = Lower(e)
                       ELSE user \in members[tm]
        IN
        IF tm \notin teams
        THEN /\ resp' = [resp EXCEPT ![r] = "404"]
             /\ pc' = [pc EXCEPT ![r] = "done"]
             /\ UNCHANGED << msg, twrite, pendLog >>
        ELSE IF refused
        THEN /\ msg' = [msg EXCEPT ![r] = IF us = {} THEN "already_invited" ELSE "already_member"]
             /\ resp' = [resp EXCEPT ![r] = "page"]
             /\ pc' = [pc EXCEPT ![r] = "t_commit"]
             /\ UNCHANGED << twrite, pendLog >>
        ELSE IF PendingDelete(r, tm)
        THEN /\ resp' = [resp EXCEPT ![r] = "500"]
             /\ pc' = [pc EXCEPT ![r] = "done"]
             /\ UNCHANGED << msg, twrite, pendLog >>
        ELSE /\ resp' = [resp EXCEPT ![r] = "redirect"]
             /\ pc' = [pc EXCEPT ![r] = "t_commit"]
             /\ IF us = {}
                THEN /\ twrite' = [twrite EXCEPT ![r] =
                            [op |-> "create_invite", team |-> tm, user |-> 0, email |-> e]]
                     /\ pendLog' = [pendLog EXCEPT ![r] = Append(@,
                            [object |-> "team", action |-> "pretix.team.invite.created",
                             data |-> [email |-> e]])]
                     /\ msg' = [msg EXCEPT ![r] = "invited"]
                ELSE /\ twrite' = [twrite EXCEPT ![r] =
                            [op |-> "add_member", team |-> tm, user |-> user, email |-> ""]]
                     /\ pendLog' = [pendLog EXCEPT ![r] = Append(@,
                            [object |-> "team", action |-> "pretix.team.member.added",
                             data |-> [email |-> UserEmail[user], user |-> user]])]
                     /\ msg' = [msg EXCEPT ![r] = "member_added"]
    /\ UNCHANGED << giftVars, teams, members, invites, log, arrivals >>

\* The atomic block of the team view is left: the write and the log rows are
\* committed; deleting a team takes its memberships and invites with it.
\* members.add of a user whom another request has added in the meantime
\* either is ignored by the database or violates the unique key of the
\* membership table, and then the request fails and is rolled back.
CommitTeam(r) ==
    /\ pc[r] = "t_commit"
    /\ LET w == twrite[r] IN
        \/ /\ w.op = "add_member"
           /\ w.user \in members[w.team]
           /\ resp' = [resp EXCEPT ![r] = "500"]
           /\ UNCHANGED << teams, members, invites, log >>
        \/ /\ teams' = IF w.op = "delete_team" THEN teams \ {w.team} ELSE teams
           /\ members' =
               CASE w.op = "delete_team" -> [members EXCEPT ![w.team] = {}]
                 [] w.op = "remove_member" -> [members EXCEPT ![w.team] = @ \ {w.user}]
                 [] w.op = "add_member" -> [members EXCEPT ![w.team] = @ \cup {w.user}]
                 [] OTHER -> members
           /\ invites' =
               CASE w.op = "delete_team" -> [invites EXCEPT ![w.team] = << >>]
                 [] w.op = "create_invite" -> [invites EXCEPT ![w.team] = Append(@, w.email)]
                 [] OTHER -> invites
           /\ log' = log \o pendLog[r]
           /\ UNCHANGED resp
    /\ twrite' = [twrite EXCEPT ![r] = NoWrite]
    /\ pendLog' = [pendLog EXCEPT ![r] = << >>]
    /\ pc' = [pc EXCEPT ![r] = "done"]
    /\ UNCHANGED << giftVars, msg, arrivals >>

NextTeam ==
    \E r \in Reqs :
        \/ ArriveTeam(r)
        \/ TeamDeleteFormValid(r)
        \/ TeamRemoveMember(r)
        \/ TeamAddUser(r)
        \/ CommitTeam(r)

TeamSpec == Init /\ [][NextTeam]_vars

(***************************************************************************)
(* Properties                                                              *)
(***************************************************************************)

\* The request is a manual delta / a reversal (the revert branch wins).
IsManual(r) == ~post[r].hasRevert /\ post[r].hasValue
IsRevert(r) == post[r].hasRevert

\* The request is between taking the row lock and leaving the atomic block.
InFlight(r) == pc[r] \notin {"idle", "get_object", "select_for_update", "done"}

InitialBalance(c) == SumValues(InitialTransactions, c)

\* C1: Non-negativity. The committed balance of every card is >= 0 in every
\* state, and a manual delta whose value would take the balance it read below
\* zero ends rejected: it has written no transaction, it shows the
\* negative-value error and the balance it leaves is the one it read.
C1_NonNegative ==
    /\ \A c \in IssuedGiftCards : Balance(c) >= 0
    /\ \A r \in Reqs :
        (pc[r] = "commit" /\ IsManual(r) /\ value[r].kind = "decimal"
            /\ seen[r] + value[r].v < 0)
        => /\ msg[r] = "negative"
           /\ pendTx[r] = << >>
           /\ Value(r, card[r]) = seen[r]
           /\ Balance(card[r]) = seen[r]

\* A manual delta was committed before, and a later one is rejected.
C1_Witness ==
    /\ Len(transactions) > Len(InitialTransactions)
    /\ \E r \in Reqs :
        /\ pc[r] = "commit" /\ IsManual(r) /\ value[r].kind = "decimal"
        /\ seen[r] + value[r].v < 0
        /\ msg[r] = "negative"

\* The manual deltas of lockOrder, as parsed values.
DeltaOf(e) == ParseDecimal(e.post.value).v

RECURSIVE PrefixSumsOk(_, _)
\* Every prefix of the deltas in seq, applied to balance b, stays >= 0.
PrefixSumsOk(b, seq) ==
    IF seq = << >> THEN TRUE
    ELSE b + DeltaOf(Head(seq)) >= 0 /\ PrefixSumsOk(b + DeltaOf(Head(seq)), Tail(seq))

RECURSIVE SumDeltas(_)
SumDeltas(seq) == IF seq = << >> THEN 0 ELSE DeltaOf(Head(seq)) + SumDeltas(Tail(seq))

\* Every request so far was a manual delta with a decimal value on card c,
\* all of them have finished and the audit sink has not failed.
ManualRunOn(c) ==
    /\ faults = 0
    /\ Len(lockOrder) = arrivals
    /\ \A r \in Reqs : pc[r] \in {"idle", "done"}
    /\ \A i \in 1..Len(lockOrder) :
        /\ lockOrder[i].card = c
        /\ ~lockOrder[i].post.hasRevert
        /\ lockOrder[i].post.hasValue
        /\ ParseDecimal(lockOrder[i].post.value).kind = "decimal"

\* C2: Serializability per card. When N manual deltas on one card, run in any
\* interleaving, have all finished and every prefix sum in the order in which
\* they took the card's lock stays >= 0, all N are committed (N new
\* transactions, every request redirected) and the balance is B + sum(vi).
C2_Serializable ==
    \A c \in IssuedGiftCards :
        (ManualRunOn(c) /\ PrefixSumsOk(InitialBalance(c), lockOrder))
        => /\ Balance(c) = InitialBalance(c) + SumDeltas(lockOrder)
           /\ Len(transactions) = Len(InitialTransactions) + Len(lockOrder)
           /\ \A r \in Reqs : pc[r] = "done" => resp[r] = "redirect"

\* Two overlapping manual deltas (both request slots were in use), one of
\* them negative, have both been committed.
C2_Witness ==
    \E c \in IssuedGiftCards :
        /\ ManualRunOn(c) /\ PrefixSumsOk(InitialBalance(c), lockOrder)
        /\ Len(lockOrder) >= 2
        /\ \A r \in Reqs : pc[r] = "done"
        /\ \E i \in 1..Len(lockOrder) : DeltaOf(lockOrder[i]) < 0

\* C3: The balance is read for the check only while the request holds the
\* card's lock, and from the check until the request's writes are committed
\* the card's committed balance is still the one the request read.
C3_AtomicReadDecideAppend ==
    \A r \in Reqs :
        /\ pc[r] \in {"revert_guard", "check_balance"} => lockHolder[card[r]] = r
        /\ pc[r] \in {"create_transaction", "create_payment", "execute_payment",
                      "executing"}
           => /\ lockHolder[card[r]] = r
              /\ Balance(card[r]) = seen[r]
              /\ Value(r, card[r]) = seen[r]

\* A request is about to append while another one waits for the same card.
C3_Witness ==
    \E r, q \in Reqs :
        /\ r # q
        /\ card[r] = card[q]
        /\ pc[r] = "create_transaction"
        /\ pc[q] = "select_for_update"

\* C4: Mutual exclusion per card: at most one request on a card is between
\* lock acquisition and commit/reject.
C4_MutualExclusion ==
    \A c \in IssuedGiftCards :
        Cardinality({r \in Reqs : InFlight(r) /\ card[r] = c}) <= 1

\* A reversal is in flight on a card while a second request waits for it.
C4_Witness ==
    \E r, q \in Reqs :
        /\ r # q
        /\ card[r] = card[q]
        /\ pc[r] = "executing"
        /\ pc[q] = "select_for_update"

\* Every committed transaction is still there, unchanged, in the next state.
TransactionsPreserved ==
    \A i \in 1..Len(transactions) :
        /\ i <= Len(transactions')
        /\ transactions'[i] = transactions[i]

\* C5: Append-only history. No step of a reversal request deletes or changes
\* a committed transaction: every transaction, the reverted one included,
\* keeps its value, card and order reference whether the request is rejected,
\* the payment fails or it succeeds.
C5_AppendOnly ==
    [][\A r \in Reqs :
        (post'[r].hasRevert /\ pc'[r] # pc[r]) => TransactionsPreserved]_vars

\* One reversal has been committed after a failed payment and one after a
\* confirmed payment.
C5_Witness ==
    /\ \E i \in 1..Len(payments) : payments[i].state = PAYMENT_STATE_FAILED
    /\ \E i \in 1..Len(payments) : payments[i].state = PAYMENT_STATE_CONFIRMED
    /\ \A i \in 1..Len(InitialTransactions) : transactions[i] = InitialTransactions[i]

\* The request is a reversal naming a transaction of its card that has no
\* order or a value <= 0.
NamesIneligible(r) ==
    /\ IsRevert(r)
    /\ post[r].revert \in 1..Len(transactions)
    /\ transactions[post[r].revert].card = card[r]
    /\ \/ transactions[post[r].revert].order = NoOrder
       \/ transactions[post[r].revert].value <= 0

\* The request has written nothing and has not called the payment capability.
NoSideEffects(r) ==
    /\ pendTx[r] = << >>
    /\ pendPay[r] = << >>
    /\ pendLog[r] = << >>
    /\ execCalls[r] = 0

ErrorMessages == {"negative", "not_reversed", "invalid"}

\* C6 as stated: a reversal of a transaction without order or with value <= 0
\* fails with an error and has no side effects.
C6_Original ==
    \A r \in Reqs :
        NamesIneligible(r)
        => /\ InFlight(r) => NoSideEffects(r)
           /\ pc[r] = "commit" => msg[r] \in ErrorMessages
           /\ (pc[r] = "done" /\ transactions[post[r].revert].order = NoOrder)
              => resp[r] = "404"

\* C6 (amended): a reversal of a transaction without order ends in not-found
\* (404); a reversal of an order-linked transaction with value <= 0 ends with
\* the normal page and no message at all; in both cases the request creates
\* no payment, writes no audit record, appends no transaction and does not
\* call the payment capability.
C6_IneligibleNoEffect ==
    \A r \in Reqs :
        NamesIneligible(r)
        => /\ InFlight(r) => (NoSideEffects(r) /\ msg[r] = "none")
           /\ pc[r] = "commit"
              => /\ resp[r] = "page"
                 /\ transactions[post[r].revert].order # NoOrder
           /\ (pc[r] = "done" /\ transactions[post[r].revert].order = NoOrder)
              => (resp[r] = "404" /\ msg[r] = "none")

\* One reversal of a transaction without order has ended, and one of an
\* order-linked transaction with value <= 0 is about to leave post().
C6_Witness ==
    \E r, q \in Reqs :
        /\ NamesIneligible(r) /\ pc[r] = "done"
        /\ transactions[post[r].revert].order = NoOrder
        /\ NamesIneligible(q) /\ pc[q] = "commit"
        /\ transactions[post[q].revert].order # NoOrder

\* The request is a reversal that has found its positive, order-linked
\* transaction and holds the card.
RevertsPositive(r) ==
    /\ IsRevert(r)
    /\ InFlight(r)
    /\ t[r] # 0
    /\ transactions[t[r]].value > 0

\* C7: Reversal guard. A reversal of a positive, order-linked transaction t
\* on a card with balance - t.value < 0 creates no payment, does not call the
\* payment capability, writes nothing, and ends with the negative-value error.
C7_ReversalGuard ==
    \A r \in Reqs :
        (RevertsPositive(r) /\ Balance(card[r]) - transactions[t[r]].value < 0)
        => /\ NoSideEffects(r)
           /\ pc[r] \in {"revert_guard", "commit"}
           /\ pc[r] = "commit" => (msg[r] = "negative" /\ resp[r] = "page")

\* A reversal has been rejected by the guard.
C7_Witness ==
    \E r \in Reqs :
        /\ RevertsPositive(r)
        /\ Balance(card[r]) - transactions[t[r]].value < 0
        /\ pc[r] = "commit"
        /\ msg[r] = "negative"

\* The payment a reversal of t creates, up to its state.
IsAttemptFor(p, r) ==
    /\ p.order = transactions[t[r]].order
    /\ p.amount = transactions[t[r]].value
    /\ p.provider = "giftcard"
    /\ p.info = [gift_card |-> card[r], retry |-> TRUE]

\* C8: A reversal of an eligible transaction t (order-linked, value > 0,
\* balance - t.value >= 0) creates exactly one payment, for t's order, amount
\* t.value, provider giftcard, state created, info {gift_card, retry}, and
\* then calls the payment capability exactly once.
C8_OneAttempt ==
    \A r \in Reqs :
        (RevertsPositive(r) /\ Balance(card[r]) - transactions[t[r]].value >= 0)
        => /\ pc[r] \in {"revert_guard", "create_payment"}
              => (pendPay[r] = << >> /\ execCalls[r] = 0)
           /\ pc[r] = "execute_payment"
              => /\ Len(pendPay[r]) = 1
                 /\ IsAttemptFor(pendPay[r][1], r)
                 /\ pendPay[r][1].state = PAYMENT_STATE_CREATED
                 /\ execCalls[r] = 0
           /\ pc[r] \in {"executing", "reversed", "payment_failed", "commit"}
              => /\ Len(pendPay[r]) = 1
                 /\ IsAttemptFor(pendPay[r][1], r)
                 /\ execCalls[r] = 1

\* A reversal is about to commit its one payment after one call.
C8_Witness ==
    \E r \in Reqs :
        /\ RevertsPositive(r)
        /\ pc[r] = "commit"
        /\ Len(pendPay[r]) = 1
        /\ execCalls[r] = 1

FailedPayments == {i \in 1..Len(payments) : payments[i].state = PAYMENT_STATE_FAILED}
FailedLogs == {i \in 1..Len(log) : log[i].action = "pretix.event.order.payment.failed"}

\* C9: Reversal failure path. After the payment capability raised, the
\* request ends with its one payment in state failed, one order-level
\* 'payment.failed' audit record carrying the error text, the error message,
\* no transaction written and the card's balance as it was; the failed
\* payments and their audit records are committed together.
C9_FailurePath ==
    /\ \A r \in Reqs :
        (pc[r] = "commit" /\ err[r] # "none")
        => /\ Len(pendPay[r]) = 1
           /\ pendPay[r][1].state = PAYMENT_STATE_FAILED
           /\ pendLog[r] = << [object |-> transactions[t[r]].order,
                               action |-> "pretix.event.order.payment.failed",
                               data |-> [provider |-> "giftcard", error |-> err[r]]] >>
           /\ msg[r] = "not_reversed"
           /\ resp[r] = "page"
           /\ pendTx[r] = << >>
           /\ Value(r, card[r]) = seen[r]
           /\ Balance(card[r]) = seen[r]
    /\ Cardinality(FailedPayments) = Cardinality(FailedLogs)

\* A failed reversal has been committed and the ledger is the initial one.
C9_Witness ==
    /\ FailedPayments # {}
    /\ FailedLogs # {}
    /\ transactions = InitialTransactions

\* C10 as stated: while the payment capability runs, the request holds no
\* card lock.
C10_Original ==
    \A r \in Reqs :
        pc[r] = "executing" => \A c \in IssuedGiftCards : lockHolder[c] # r

\* C10 (amended): the payment capability is called while the request still
\* holds the row lock of its card; from the call to its return no other
\* request on that card is past select_for_update.
C10_ExecuteUnderLock ==
    \A r \in Reqs :
        pc[r] \in {"execute_payment", "executing"}
        => /\ lockHolder[card[r]] = r
           /\ \A q \in Reqs : (q # r /\ card[q] = card[r]) => ~InFlight(q)

\* The payment capability runs for one card while a request on the same
\* card waits and the other card is free.
C10_Witness ==
    \E r, q \in Reqs :
        /\ r # q
        /\ pc[r] = "executing"
        /\ lockHolder[card[r]] = r
        /\ pc[q] = "select_for_update"
        /\ card[q] = card[r]
        /\ \E c \in IssuedGiftCards : lockHolder[c] = NoHolder

\* The audit records of manual deltas, and the transactions appended by
\* manual deltas (rows without order created after the initial ones).
ManualLogs == {i \in 1..Len(log) : log[i].action = "pretix.giftcards.transaction.manual"}
ManualTransactions ==
    {i \in (Len(InitialTransactions) + 1)..Len(transactions) : transactions[i].order = NoOrder}

\* C11: A manual delta that commits a transaction emits exactly one audit
\* record 'pretix.giftcards.transaction.manual' on the gift card with data
\* {value, text}; a rejected one emits none; so the number of such committed
\* records always equals the number of manual transactions appended.
C11_OneAuditPerManual ==
    /\ Cardinality(ManualLogs) = Cardinality(ManualTransactions)
    /\ \A i \in ManualLogs :
        /\ log[i].object = "giftcard"
        /\ DOMAIN log[i].data = {"value", "text"}
    /\ \A r \in Reqs :
        (pc[r] = "commit" /\ IsManual(r))
        => IF msg[r] = "saved"
           THEN /\ Len(pendTx[r]) = 1
                /\ pendLog[r] = << [object |-> "giftcard",
                                    action |-> "pretix.giftcards.transaction.manual",
                                    data |-> [value |-> pendTx[r][1].value,
                                              text |-> post[r].text]] >>
           ELSE /\ msg[r] \in ErrorMessages
                /\ pendTx[r] = << >>
                /\ pendLog[r] = << >>

\* One manual delta was committed with its audit record and another one was
\* rejected.
C11_Witness ==
    /\ Cardinality(ManualLogs) = 1
    /\ Cardinality(ManualTransactions) = 1
    /\ \E r \in Reqs : pc[r] = "done" /\ IsManual(r) /\ msg[r] = "negative"

\* A step in which the log_action call of request r raises.
AuditFails(r) == pc[r] = "log_action" /\ pc'[r] = "done"

\* C15 as stated: when the audit record of a manual delta cannot be written,
\* the appended transaction is still committed.
C15_Original ==
    [][\A r \in Reqs : AuditFails(r) => transactions' = transactions \o pendTx[r]]_vars

\* C15: The audit record of a manual delta is written inside the atomic
\* block of the mutation. When log_action raises, the request ends with a
\* server error, the transaction it had created is rolled back with it, no
\* table changes and the row lock is released.
C15_AuditFailureRollsBack ==
    [][\A r \in Reqs :
        AuditFails(r)
        => /\ Len(pendTx[r]) = 1
           /\ UNCHANGED store
           /\ resp'[r] = "500"
           /\ pendTx'[r] = << >>
           /\ pendLog'[r] = << >>
           /\ lockHolder'[card[r]] = NoHolder]_vars

\* The audit write of an accepted manual delta has failed and the ledger
\* holds no transaction of it.
C15_Witness ==
    /\ faults = 1
    /\ ManualTransactions = {}
    /\ \E r \in Reqs :
        /\ pc[r] = "done"
        /\ resp[r] = "500"
        /\ IsManual(r)
        /\ ParseDecimal(post[r].value).kind = "decimal"

\* C16: Effect of an accepted manual delta. When the balance read under the
\* lock plus the value is >= 0, the request appends exactly one transaction
\* to its card with the given value, the given text (or none) and no order,
\* the balance becomes the one read plus the value, and its commit leaves
\* every existing transaction as it was.
C16_AcceptedDelta ==
    /\ \A r \in Reqs :
        (pc[r] \in {"log_action", "commit"} /\ IsManual(r) /\ pendTx[r] # << >>)
        => /\ value[r].kind = "decimal"
           /\ seen[r] + value[r].v >= 0
           /\ pendTx[r] = << [card |-> card[r],
                              value |-> ParseDecimal(post[r].value).v,
                              text |-> IF post[r].text = "" THEN NoText ELSE post[r].text,
                              order |-> NoOrder] >>
           /\ pendPay[r] = << >>
           /\ Balance(card[r]) = seen[r]
           /\ Value(r, card[r]) = seen[r] + value[r].v
           /\ \A c \in IssuedGiftCards \ {card[r]} :
                SumValues(transactions \o pendTx[r], c) = Balance(c)
    /\ \A r \in Reqs :
        (pc[r] = "create_transaction")
        => /\ IsManual(r)
           /\ seen[r] = Balance(card[r])
           /\ seen[r] + value[r].v >= 0
           /\ pendTx[r] = << >>

\* An accepted manual delta with a negative value is about to commit after
\* an accepted one that carried a memo.
C16_Witness ==
    \E r \in Reqs :
        /\ pc[r] = "commit"
        /\ IsManual(r)
        /\ msg[r] = "saved"
        /\ pendTx[r][1].value < 0
        /\ Balance(card[r]) + pendTx[r][1].value >= 0
        /\ \E q \in Reqs : pc[q] = "done" /\ IsManual(q) /\ msg[q] = "saved" /\ post[q].text = "memo"

\* The steps of a reversal that are the coordinator's own: every step of the
\* revert branch except the return of the payment capability.
CoordinatorStep(r) ==
    /\ IsRevert(r)
    /\ pc[r] \in {"find_transaction", "revert_guard", "create_payment",
                  "execute_payment", "reversed", "payment_failed"}
    /\ pc'[r] # pc[r]

\* The coordinator's step after execute_payment has returned without error.
SuccessStep(r) == pc[r] = "reversed" /\ pc'[r] # pc[r]

\* C18: Reversal success path. After the payment capability has returned
\* without error the coordinator goes on to commit without appending a
\* transaction and without changing the state of its payment; in a reversal
\* no step of the coordinator ever writes a transaction, and what the request
\* commits to the ledger is what the payment capability has written.
C18_SuccessFrame ==
    [][\A r \in Reqs :
        /\ SuccessStep(r)
           => /\ pc'[r] = "commit"
              /\ err[r] = "none"
              /\ UNCHANGED << transactions, payments, pendTx, pendPay >>
        /\ CoordinatorStep(r)
           => \/ pendTx'[r] = pendTx[r]
              \/ pc'[r] = "done" /\ pendTx'[r] = << >> /\ UNCHANGED transactions
        /\ (pc[r] = "commit" /\ IsRevert(r) /\ pc'[r] = "done")
           => /\ transactions' = transactions \o pendTx[r]
              /\ Len(pendTx[r]) <= 1
              /\ pendTx[r] # << >>
                 => /\ pendPay[r][1].state = PAYMENT_STATE_CONFIRMED
                    /\ pendTx[r][1].order = pendPay[r][1].order]_vars

\* A reversal whose payment the capability has confirmed, with the
\* compensating transaction written by the capability, is about to commit.
C18_Witness ==
    \E r \in Reqs :
        /\ pc[r] = "commit"
        /\ msg[r] = "reversed"
        /\ pendPay[r][1].state = PAYMENT_STATE_CONFIRMED
        /\ Len(pendTx[r]) = 1

\* C19 as stated: on a successful reversal the coordinator has emitted an
\* audit record for the reversal.
C19_Original ==
    \A r \in Reqs : (pc[r] = "commit" /\ msg[r] = "reversed") => pendLog[r] # << >>

\* C19: On a successful reversal the coordinator emits no audit record: it
\* only shows the success message. The one audit record a reversal can write
\* is the order's 'payment.failed' record of the failure path.
C19_NoAuditOnSuccess ==
    /\ \A r \in Reqs :
        /\ (pc[r] \in {"reversed", "commit"} /\ IsRevert(r) /\ err[r] = "none")
           => pendLog[r] = << >>
        /\ (pc[r] = "commit" /\ msg[r] = "reversed")
           => /\ IsRevert(r)
              /\ err[r] = "none"
              /\ resp[r] = "page"
    /\ \A i \in 1..Len(log) :
        log[i].action \in {"pretix.event.order.payment.failed",
                           "pretix.giftcards.transaction.manual"}

\* A successful reversal has been committed and the audit log is empty.
C19_Witness ==
    /\ log = << >>
    /\ \E r \in Reqs : pc[r] = "done" /\ msg[r] = "reversed"
    /\ \E i \in 1..Len(payments) : payments[i].state = PAYMENT_STATE_CONFIRMED

\* The reversal request r has ended: rejected (guard), with the reversal
\* initiated, or with its payment failed.
ReversalEnded(r) ==
    /\ pc[r] = "commit"
    /\ IsRevert(r)
    /\ msg[r] \in {"negative", "reversed", "not_reversed"}

\* C20: Reversal attempts are never reopened. A reversal that has reached
\* its end only leaves the atomic block: it changes none of its writes and
\* makes no further call of the payment capability. A committed payment is
\* never changed again, whatever its state, and payments only grow by the
\* one new payment of the request that commits; so a later reversal of the
\* same transaction has a payment of its own.
C20_NeverReopened ==
    [][/\ \A r \in Reqs :
            /\ (ReversalEnded(r) /\ pc'[r] # pc[r])
               => /\ pc'[r] = "done"
                  /\ payments' = payments \o pendPay[r]
                  /\ Len(pendPay[r]) <= 1
                  /\ msg'[r] = msg[r]
            /\ (pc[r] = "done" /\ pc'[r] # "done")
               => /\ pc'[r] = "get_object"
                  /\ arrivals' = arrivals + 1
                  /\ UNCHANGED << store, pending >>
            /\ (pc[r] \in {"reversed", "payment_failed", "commit"})
               => execCalls'[r] = execCalls[r] \/ pc'[r] = "done"
            /\ (pc[r] = "create_payment" /\ pc'[r] # pc[r])
               => /\ Len(pendPay'[r]) = Len(pendPay[r]) + 1
                  /\ pendPay[r] = << >>
       /\ Len(payments') >= Len(payments)
       /\ \A i \in 1..Len(payments) : payments'[i] = payments[i]]_vars

\* A failed payment is committed and a later reversal of the same
\* transaction has committed a second payment of its own.
C20_Witness ==
    /\ Len(payments) = 2
    /\ payments[1].state = PAYMENT_STATE_FAILED
    /\ payments[2].order = payments[1].order
    /\ payments[2].amount = payments[1].amount
    /\ payments[2].info = payments[1].info
    /\ \A r \in Reqs : pc[r] = "done" /\ post[r].hasRevert
    /\ \A r, q \in Reqs : post[r].revert = post[q].revert /\ card[r] = card[q]

\* The committed 'created' audit records of card c.
CreatedLogs(c) ==
    {i \in 1..Len(log) : log[i].action = "pretix.giftcards.created" /\ log[i].data.card = c}

\* A card that does not exist has no transaction and no audit record; a card
\* that was created has one 'created' record and a balance >= 0.
CreatedCardsWhole ==
    /\ \A c \in NewCardPks \ cards :
        /\ \A i \in 1..Len(transactions) : transactions[i].card # c
        /\ CreatedLogs(c) = {}
    /\ \A c \in cards \ IssuedGiftCards :
        /\ \E i \in 1..Len(transactions) : transactions[i].card = c
        /\ Cardinality(CreatedLogs(c)) = 1
        /\ Balance(c) >= 0

\* The steps in which a creation request is refused, goes on to form_valid,
\* and commits.
CreationStep(r) ==
    /\ (pc[r] = "c_post" /\ pc'[r] = "done")
       => /\ resp'[r] = "giftcard_create.html"
          /\ UNCHANGED << store, pending, cards, cardRow, cardSeq >>
    /\ (pc[r] = "c_post" /\ pc'[r] = "c_form_valid")
       => value'[r].v >= 0
    /\ (pc[r] = "c_commit" /\ pc'[r] = "done")
       => /\ card[r] \notin cards
          /\ cards' = cards \cup {card[r]}
          /\ Len(pendTx[r]) = 1
          /\ pendTx[r][1].card = card[r]
          /\ pendTx[r][1].value >= 0
          /\ transactions' = transactions \o pendTx[r]
          /\ SumValues(transactions', card[r]) = pendTx[r][1].value
          /\ log' = log \o pendLog[r]
          /\ Len(pendLog[r]) = (IF pendTx[r][1].value = 0 THEN 1 ELSE 2)

\* C12: Card creation and its initial transaction are one unit. A creation
\* with a negative initial value is refused by the form and leaves no card
\* row, no transaction and no audit record; a creation that goes through
\* commits the card, its one initial transaction and its audit records in
\* one step, and the balance of the new card is its initial value, >= 0.
C12_CreationIsOneUnit ==
    /\ []CreatedCardsWhole
    /\ [][\A r \in Reqs : CreationStep(r)]_vars

\* A creation was refused and nothing was written, after another one had
\* created a card with a positive balance.
C12_Witness ==
    /\ \E r \in Reqs : pc[r] = "done" /\ resp[r] = "giftcard_create.html"
    /\ cards = IssuedGiftCards \cup {4}
    /\ cardSeq = 4
    /\ Balance(4) = 2
    /\ Len(log) = 2
    /\ Len(transactions) = Len(InitialTransactions) + 1

\* GiftCardListView.get_queryset: cached_value = Coalesce(Subquery(s), 0).
CachedValue(c) ==
    IF \E i \in 1..Len(transactions) : transactions[i].card = c
    THEN SumValues(transactions, c)
    ELSE 0

\* The rows transactions' has after those of transactions.
Appended == SubSeq(transactions', Len(transactions) + 1, Len(transactions'))

UpdatePcs == {"u_post", "u_form_valid", "u_commit"}

\* Where a request of the detail view is while it holds the row lock.
LockedPcs == {"find_transaction", "revert_guard", "create_payment", "execute_payment",
              "executing", "reversed", "payment_failed", "parse_value", "check_balance",
              "create_transaction", "log_action", "commit"}

\* C13: The balance of a card is always the sum of the values of its
\* transactions, as the list view computes it. No step of a manual delta, a
\* reversal, a creation or a metadata update changes a balance other than by
\* appending transactions: the rows there were stay as they are, the balance
\* moves by the sum of the rows appended, and an update appends nothing.
C13_BalanceIsLedgerSum ==
    /\ [](\A c \in CardPks \cup NewCardPks : Balance(c) = CachedValue(c))
    /\ [][/\ Len(transactions') >= Len(transactions)
          /\ SubSeq(transactions', 1, Len(transactions)) = transactions
          /\ \A c \in CardPks \cup NewCardPks :
                SumValues(transactions', c) = Balance(c) + SumValues(Appended, c)
          /\ \A r \in Reqs :
                (pc[r] \in UpdatePcs /\ pc'[r] # pc[r]) => transactions' = transactions]_vars

\* A card was created with an initial value and then deactivated by an
\* update: its balance is still its initial transaction.
C13_Witness ==
    /\ 4 \in cards
    /\ cardRow[4] = FALSE
    /\ Balance(4) = 2
    /\ \E r \in Reqs : pc[r] = "done" /\ msg[r] = "changed" /\ card[r] = 4

\* C14 as stated: no step of an update of a card is taken between the lock
\* acquisition and the commit of a manual delta or reversal on that card.
C14_Original ==
    [][\A q \in Reqs :
        (pc[q] \in UpdatePcs /\ pc'[q] # pc[q])
        => \A p \in Reqs \ {q} : ~(pc[p] \in LockedPcs /\ card[p] = card[q])]_vars

\* C14: Only the write of an update is serialized against the balance
\* operations on the card. The UPDATE of the row waits until no request
\* holds the row lock and keeps the lock until the update commits; the read
\* and the validation before it take no lock. An update writes no
\* transaction and no payment, and a manual delta or reversal never writes
\* the card row, so neither overwrites what the other has written.
C14_WriteWaitsForLock ==
    [][\A q \in Reqs :
        /\ (pc[q] = "u_form_valid" /\ pc'[q] # pc[q])
           => /\ lockHolder[card[q]] = NoHolder
              /\ lockHolder'[card[q]] = q
        /\ (pc[q] = "u_commit")
           => /\ lockHolder[card[q]] = q
              /\ \A p \in Reqs \ {q} : pc[p] \in LockedPcs => card[p] # card[q]
        /\ (pc[q] \in UpdatePcs /\ pc'[q] # pc[q])
           => UNCHANGED << transactions, payments, pendTx, pendPay >>
        /\ (pc[q] \notin UpdatePcs /\ pc'[q] # pc[q])
           => UNCHANGED cardRow
        /\ (pc[q] = "u_commit" /\ pc'[q] # pc[q])
           => cardRow' = [cardRow EXCEPT ![card[q]] = meta[q]]]_vars

\* An update has read the card and validated its form while a manual delta
\* on the same card is between its lock acquisition and its commit; the
\* write of the update is waiting.
C14_Witness ==
    \E r, q \in Reqs :
        /\ r # q
        /\ pc[q] = "u_form_valid"
        /\ card[q] = card[r]
        /\ lockHolder[card[r]] = r
        /\ pc[r] = "log_action"

\* The prefix of the first n transactions.
Prefix(n) == SubSeq(transactions, 1, n)

\* C17: Prefix-sum invariant. For every card, every prefix of the committed
\* transactions in creation order sums to a value >= 0, and so does the
\* ledger extended by the rows any request has written and not yet
\* committed: the check is made before the row is appended.
C17_PrefixSums ==
    /\ \A c \in CardPks \cup NewCardPks :
        \A n \in 0..Len(transactions) : SumValues(Prefix(n), c) >= 0
    /\ \A r \in Reqs :
        \A c \in CardPks \cup NewCardPks : Value(r, c) >= 0

\* A card was created with value 2 and a manual delta of -2 was committed on
\* it: its prefix sums are 2 and 0.
C17_Witness ==
    /\ 4 \in cards
    /\ Balance(4) = 0
    /\ \E n \in 1..Len(transactions) : SumValues(Prefix(n), 4) = 2
    /\ \E r \in Reqs : pc[r] = "done" /\ card[r] = 4 /\ IsManual(r) /\ msg[r] = "saved"

\* The committed transactions of card c, by index.
TransactionsOf(c) == {i \in 1..Len(transactions) : transactions[i].card = c}

\* C21: Successful card creation. The card row and its initial transaction
\* are committed in one step or not at all: a created card has a first
\* transaction and a card that is not there has none. At the commit the new
\* card gets exactly one transaction, whose value is the initial value (zero
\* allowed), and its balance is the initial value.
C21_CreationEffect ==
    /\ [](\A c \in NewCardPks : c \in cards <=> TransactionsOf(c) # {})
    /\ [][\A r \in Reqs :
            (pc[r] = "c_commit" /\ pc'[r] = "done")
            => /\ card[r] \notin cards
               /\ TransactionsOf(card[r]) = {}
               /\ cards' = cards \cup {card[r]}
               /\ transactions' = Append(transactions,
                        [card |-> card[r], value |-> value[r].v,
                         text |-> NoText, order |-> NoOrder])
               /\ SumValues(transactions', card[r]) = value[r].v
               /\ value[r].v \in CreateValues]_vars

\* A card created with the initial value zero: one transaction of value 0.
C21_Witness ==
    /\ 4 \in cards
    /\ Cardinality(TransactionsOf(4)) = 1
    /\ \A i \in TransactionsOf(4) : transactions[i].value = 0
    /\ CachedValue(4) = 0
    /\ \E r \in Reqs : pc[r] = "done" /\ msg[r] = "created" /\ card[r] = 4

\* The value text of manual delta r is not a decimal.
NotADecimal(r) == IsManual(r) /\ ParseDecimal(post[r].value).kind # "decimal"

\* C22: A manual delta whose value text cannot be parsed as a decimal is
\* rejected before any balance check or write: it never gets to the balance
\* check, it writes no transaction and no audit record, and it ends with the
\* error message on the normal page.
C22_RejectedBeforeCheck ==
    \A r \in Reqs :
        NotADecimal(r)
        => /\ pc[r] \notin {"check_balance", "create_transaction", "log_action"}
           /\ pendTx[r] = << >>
           /\ pendLog[r] = << >>
           /\ pc[r] \in {"commit", "done"} => (msg[r] = "invalid" /\ resp[r] = "page")

\* The steps request r of the detail view can take once it holds its lock.
LockedStep(r) ==
    \/ GetTransaction(r)
    \/ RevertGuard(r)
    \/ CreatePayment(r)
    \/ ExecutePayment(r)
    \/ ProviderReturns(r)
    \/ ProviderRaises(r)
    \/ PaymentFailed(r)
    \/ PaymentSucceeded(r)
    \/ ParseValue(r)
    \/ CheckBalance(r)
    \/ CreateTransaction(r)
    \/ LogAction(r)
    \/ Commit(r)

\* No other request is inside the critical section of the card r names.
CardFree(r) == \A p \in Reqs \ {r} : pc[p] \in LockedPcs => card[p] # card[r]

\* A request can take its lock whenever no request on the same card holds
\* it, whatever is locked on other cards, and a request that holds its lock
\* can always take its next step.
NeverBlockedByOtherCard ==
    \A r \in Reqs :
        /\ (pc[r] = "select_for_update" /\ CardFree(r)) => ENABLED SelectForUpdate(r)
        /\ pc[r] \in LockedPcs => ENABLED LockedStep(r)

\* C23: Cross-card independence. Every step of a request on card A leaves
\* the transactions, the balance and the lock of every other card B as they
\* were, and a lock held on A never keeps a request on B from taking B's
\* lock and going on to its end.
C23_CrossCardIndependence ==
    /\ []NeverBlockedByOtherCard
    /\ [][\A r \in Reqs :
            (pc[r] \in LockedPcs \cup {"select_for_update"} /\ pc'[r] # pc[r])
            => \A b \in IssuedGiftCards \ {card[r]} :
                /\ SumValues(transactions', b) = Balance(b)
                /\ \A i \in 1..Len(transactions') :
                        transactions'[i].card = b
                        => i <= Len(transactions) /\ transactions'[i] = transactions[i]
                /\ lockHolder'[b] = lockHolder[b]]_vars

\* Two manual deltas on different cards hold their locks at the same time,
\* both past the balance check.
C23_Witness ==
    \E r, q \in Reqs :
        /\ card[r] # card[q]
        /\ lockHolder[card[r]] = r
        /\ lockHolder[card[q]] = q
        /\ pc[r] = "log_action"
        /\ pc[q] = "log_action"

\* Fair scheduling of the detail view: a request that can run does run, a
\* request that waits for a row lock gets it if the lock keeps coming free,
\* and the payment capability returns or raises. Arrivals are not forced.
Fairness ==
    \A r \in Reqs :
        /\ WF_vars(GetObject(r))
        /\ SF_vars(SelectForUpdate(r))
        /\ WF_vars(LockedStep(r))

FairSpec == Spec /\ Fairness

\* Request r holds the row lock of its card.
HoldsLock(r) == pc[r] \in LockedPcs /\ lockHolder[card[r]] = r

\* C24: Lock liveness. A request that has ended holds no lock; every request
\* that holds a card's lock eventually gives it up, and every request that
\* waits for a card's lock eventually ends, having held the lock.
C24_LockLiveness ==
    /\ [](\A r \in Reqs : pc[r] = "done" => \A c \in IssuedGiftCards : lockHolder[c] # r)
    /\ \A r \in Reqs : HoldsLock(r) ~> (pc[r] = "done")
    /\ \A r \in Reqs : (pc[r] = "select_for_update") ~> HoldsLock(r)

\* A request waits for the lock of a card while a reversal on that card is
\* inside the payment capability.
C24_Witness ==
    \E r, q \in Reqs :
        /\ r # q
        /\ card[q] = card[r]
        /\ pc[q] = "select_for_update"
        /\ HoldsLock(r)
        /\ pc[r] = "executing"
        /\ execCalls[r] = 1

\* Request r names a card that is not one of the organizer's.
ForeignCard(r) == pc[r] \notin {"idle", "get_object"} /\ card[r] \notin cards

\* Reversal r names a transaction id that does not exist or is of another card.
ForeignTransaction(r) ==
    /\ pc[r] \in LockedPcs \cup {"done"}
    /\ IsRevert(r)
    /\ \/ post[r].revert \notin 1..Len(transactions)
       \/ transactions[post[r].revert].card # card[r]

\* C25: A request naming a card that is not issued by the organizer ends in
\* not-found before any lock is taken, and a reversal naming a transaction
\* that does not exist or belongs to another card ends in not-found at the
\* lookup; neither creates a payment, appends a transaction or writes an
\* audit record, and a step that ends in not-found changes no table.
C25_NotFound ==
    /\ [](\A r \in Reqs :
            /\ ForeignCard(r)
               => /\ pc[r] = "done"
                  /\ resp[r] = "404"
                  /\ post[r] = NoPost
            /\ ForeignTransaction(r)
               => /\ pc[r] \in {"find_transaction", "done"}
                  /\ pc[r] = "done" => resp[r] = "404"
                  /\ execCalls[r] = 0
            /\ (ForeignCard(r) \/ ForeignTransaction(r))
               => /\ pendTx[r] = << >>
                  /\ pendPay[r] = << >>
                  /\ pendLog[r] = << >>
                  /\ \A c \in DOMAIN lockHolder :
                        lockHolder[c] = r => pc[r] = "find_transaction")
    /\ [][\A r \in Reqs :
            (pc[r] # "done" /\ pc'[r] = "done" /\ resp'[r] = "404")
            => UNCHANGED << store, cards, cardRow >>]_vars

\* One request has named the card of another organizer and one reversal a
\* transaction of another card; both ended in not-found and every table is
\* as it was at the start.
C25_Witness ==
    /\ \E r \in Reqs : ForeignCard(r) /\ pc[r] = "done"
    /\ \E q \in Reqs :
        /\ ForeignTransaction(q)
        /\ pc[q] = "done"
        /\ post[q].revert \in 1..Len(transactions)
    /\ transactions = InitialTransactions
    /\ payments = << >>
    /\ log = << >>

\* The POST of request r carries both 'revert' and 'value'.
BothFields(r) == pc[r] \in LockedPcs \cup {"done"} /\ post[r].hasRevert /\ post[r].hasValue

\* The rows of seq that a manual delta would have written.
ManualRows(seq) == {i \in 1..Len(seq) : seq[i].order = NoOrder}
ManualRecords(seq) ==
    {i \in 1..Len(seq) : seq[i].action = "pretix.giftcards.transaction.manual"}

\* C26: When a request carries both 'revert' and 'value', only the reversal
\* branch runs: the request never parses or checks the value, it writes no
\* transaction without order and no 'transaction.manual' audit record, and
\* its commit adds none to the tables, whatever the outcome of the reversal.
C26_RevertWins ==
    /\ [](\A r \in Reqs :
            BothFields(r)
            => /\ pc[r] \notin {"parse_value", "check_balance", "create_transaction", "log_action"}
               /\ value[r] = ParseDecimal("")
               /\ ManualRows(pendTx[r]) = {}
               /\ ManualRecords(pendLog[r]) = {}
               /\ msg[r] \notin {"saved", "invalid"})
    /\ [][\A r \in Reqs :
            (BothFields(r) /\ pc'[r] # pc[r])
            => /\ Cardinality(ManualRows(transactions')) = Cardinality(ManualRows(transactions))
               /\ Cardinality(ManualRecords(log')) = Cardinality(ManualRecords(log))]_vars

\* A request with both fields has reversed its transaction, and another one
\* has ended with its payment failed.
C26_Witness ==
    /\ \E r \in Reqs : BothFields(r) /\ pc[r] = "done" /\ msg[r] = "reversed"
    /\ \E q \in Reqs : BothFields(q) /\ pc[q] = "done" /\ msg[q] = "not_reversed"
    /\ Len(payments) = 2

\* The first committed transaction of card c.
FirstTransaction(c) ==
    transactions[CHOOSE i \in TransactionsOf(c) : \A j \in TransactionsOf(c) : i <= j]

\* The committed manual audit records written by a creation (data = {value}).
CreationManualLogs ==
    {i \in 1..Len(log) :
        /\ log[i].action = "pretix.giftcards.transaction.manual"
        /\ DOMAIN log[i].data = {"value"}}

\* C27: Card creation always writes the initial transaction and one
\* 'pretix.giftcards.created' audit record, and a
\* 'pretix.giftcards.transaction.manual' record only when the initial value
\* is not zero: a card created with value zero has one transaction and no
\* manual-transaction record.
C27_CreationAudit ==
    /\ \A r \in Reqs :
        pc[r] = "c_commit"
        => /\ Len(pendTx[r]) = 1
           /\ pendTx[r][1].value = value[r].v
           /\ pendLog[r][1] = [object |-> "giftcard",
                               action |-> "pretix.giftcards.created",
                               data |-> [card |-> card[r]]]
           /\ IF value[r].v = 0
              THEN Len(pendLog[r]) = 1
              ELSE /\ Len(pendLog[r]) = 2
                   /\ pendLog[r][2] = [object |-> "giftcard",
                                       action |-> "pretix.giftcards.transaction.manual",
                                       data |-> [value |-> value[r].v]]
    /\ \A c \in cards \ IssuedGiftCards : Cardinality(CreatedLogs(c)) = 1
    /\ Cardinality(CreationManualLogs)
         = Cardinality({c \in cards \ IssuedGiftCards : FirstTransaction(c).value # 0})

\* One card was created with value zero and one with value 2: two
\* transactions, two 'created' records and one manual record.
C27_Witness ==
    /\ cards = IssuedGiftCards \cup {4, 5}
    /\ \E c \in {4, 5} : FirstTransaction(c).value = 0
    /\ \E c \in {4, 5} : FirstTransaction(c).value = 2
    /\ Len(log) = 3
    /\ Cardinality(CreationManualLogs) = 1
    /\ Len(transactions) = Len(InitialTransactions) + 2

\* The teams that give someone the permission to change teams.
AdminTeams == {tm \in teams : CanChangeTeams[tm] /\ members[tm] # {}}

\* C28: an organizer that has a team with can_change_teams and a member
\* keeps at least one such team after any team deletions and member
\* removals, also when two such requests on different teams run
\* concurrently.
C28_AdminTeamKept == AdminTeams # {}

\* C29: after any add requests, concurrent ones included, a team holds at
\* most one invite per e-mail, compared without regard to case.
C29_OneInvitePerEmail ==
    \A tm \in TeamPks : \A i, j \in 1..Len(invites[tm]) :
        i # j => Lower(invites[tm][i]) # Lower(invites[tm][j])

====
